---- MODULE Spec2Model ----
(***************************************************************************)
(* Background task schedulers of aiagents-stock and their task stores:     *)
(*   SelectorScheduler        + SelectorTaskDB         (selector_*.py)      *)
(*   MainForceBatchScheduler  + MainForceBatchDatabase (main_force_*.py)    *)
(*   StockAnalysisScheduler   + StockAnalysisTaskDB    (stock_analysis_*.py)*)
(*                                                                         *)
(* Caller threads (Streamlit sessions) call start_* and cancel_task; every *)
(* accepted task runs in its own worker thread.  A step of the model is    *)
(* one access of a thread to shared state (a registry, a lock, an event,   *)
(* the store), so the interleavings of the model are those of the threads. *)
(* Store operations succeed in Spec (each sqlite statement is one atomic   *)
(* transaction).  The three schedulers are separate singletons over        *)
(* separate database files and share no state: a behaviour exercises the   *)
(* one named by env.sched.                                                 *)
(***************************************************************************)
EXTENDS Integers, Sequences, FiniteSets, TLC

\* ------------------------------------------------------------------ bounds
\* uuid4 draws available to a behaviour (task ids 1..NumTasks); id 0 is a row
\* left in the store by a previous process.
NumTasks == 2
\* longest stock_codes / symbols list of a batch
MaxUnits == 3
\* most rows of a table handed to a normalizer, beside the large one (BigTable)
MaxRows == 120

Callers == {"s1", "s2"}
SelTypes == {"low_price_bull"}
\* values of max_workers tried (0 makes ThreadPoolExecutor raise ValueError)
WorkerChoices == {0, 1, 2}

TaskIds == 0..NumTasks
FreshIds == 1..NumTasks

NonTerminal == {"pending", "running"}
Terminal == {"completed", "failed", "cancelled"}

\* what a work function call can do: return success, return success=False
\* with an error text, or raise
Outcomes == {"ok", "fail", "raise"}
\* the text of an exception, str(e), and the 'error' of a result that reports
\* failure: either can be the empty string
ExceptionTexts == {"", "exception"}
ErrorTexts == {"", "error"}

NULL == "NULL"
NoLock == <<"-", "-">>

VARIABLES
  env,                 \* what stays fixed in a behaviour: the scheduler it exercises
                       \* and the arguments its batch starts are called with
  next_id,             \* next uuid4 draw
  caller,              \* per caller thread: pc and the locals of the call in progress
  worker,              \* per spawned worker thread: pc and locals
  sel_task_locks,      \* SelectorScheduler._task_locks   (dict type -> Lock)
  sel_held,            \* the Lock objects that are locked
  sel_cancel_events,   \* SelectorScheduler._cancel_events (keys)
  sel_running_threads, \* SelectorScheduler._running_threads (keys)
  sel_event_set,       \* the threading.Event objects that are set, by task
  sel_rows,            \* table selector_tasks
  mf_task_lock,        \* MainForceBatchScheduler._task_lock is locked
  mf_cancel_flag,      \* MainForceBatchScheduler._cancel_flag is set
  mf_current_task_id,  \* MainForceBatchScheduler._current_task_id ({} is None)
  mf_rows,             \* table batch_task_status
  mf_history,          \* table batch_analysis_history
  sa_cancel_events,    \* StockAnalysisScheduler._cancel_events (keys)
  sa_running_threads,  \* StockAnalysisScheduler._running_threads (keys)
  sa_event_set,        \* the threading.Event objects that are set, by task
  sa_cancelling,       \* cancel_task calls between get_task and the update
  sa_rows,             \* table analysis_tasks
  clock,               \* the time, UTC, in units of TimeUnitsPerDay to the day
  store_ret,           \* what the last call of a store operation returned
  norm                 \* a value handed to a store's normalizer, and what it made of it

selVars == <<sel_task_locks, sel_held, sel_cancel_events, sel_running_threads,
             sel_event_set, sel_rows>>
mfVars == <<mf_task_lock, mf_cancel_flag, mf_current_task_id, mf_rows, mf_history>>
saVars ==
  <<sa_cancel_events, sa_running_threads, sa_event_set, sa_cancelling, sa_rows>>
storeVars == <<clock, store_ret, norm>>
\* nothing was handed to a normalizer
NoNorm == [by |-> NULL, obj |-> [kind |-> "none"], out |-> [kind |-> "none"], done |-> FALSE]
\* return values of the store operations: an int (a row count), True (which is
\* 1 in Python), or None
RetTrue == 1
RetNone == -1
notSel == <<mfVars, saVars, storeVars>>
notMF == <<selVars, saVars, storeVars>>
notSA == <<selVars, mfVars, storeVars>>

Idle == [pc |-> "idle", ty |-> NULL, lock |-> NoLock, task_id |-> 0]

\* pc of a caller whose start call has returned success=False and no task_id:
\* "busy" from the lock, "store_busy" from the store check, "create_failed"
\* from a create_task that failed
Rejected == {"busy", "store_busy", "create_failed"}
InStart(c) == caller[c].pc \notin {"idle"} \cup Rejected

\* the caller goes on after a start call that returned success=False
StartReturned(c) ==
  /\ caller[c].pc \in Rejected
  /\ caller' = [caller EXCEPT ![c] = Idle]
  /\ UNCHANGED <<env, next_id, worker, selVars, mfVars, saVars, storeVars>>
\* the row a previous process left counts as one of the tasks of a behaviour
Orphans == Cardinality({0} \cap (DOMAIN sel_rows \cup DOMAIN mf_rows))
\* a start call may draw a uuid: keep one id for every call in progress
IdAvailable ==
  next_id + Cardinality({c \in Callers : InStart(c)}) + Orphans <= env.starts

\* --------------------------------------------------------- SelectorTaskDB
SelNewRow(ty) ==
  [selector_type |-> ty, status |-> "pending", progress_percent |-> 0,
   current_step |-> NULL, results |-> NULL, error_message |-> NULL,
   started_at |-> FALSE, completed_at |-> FALSE]

Sel_create_task(rows, tid, ty) ==
  [t \in DOMAIN rows \cup {tid} |-> IF t = tid THEN SelNewRow(ty) ELSE rows[t]]

\* UPDATE ... WHERE task_id = ?  (no row: nothing changes); error_message is
\* written `if error_message:`, that is unless it is None or the empty string
Sel_update_task_status(rows, tid, status, err) ==
  IF tid \notin DOMAIN rows THEN rows
  ELSE [rows EXCEPT ![tid] =
          [@ EXCEPT !.status = status,
                    !.started_at = IF status = "running" THEN TRUE ELSE @,
                    !.completed_at = IF status \in Terminal THEN TRUE ELSE @,
                    !.error_message = IF err \notin {NULL, ""} THEN err ELSE @]]

Sel_update_task_progress(rows, tid, step, pct) ==
  IF tid \notin DOMAIN rows THEN rows
  ELSE [rows EXCEPT ![tid] = [@ EXCEPT !.current_step = step,
                                       !.progress_percent = pct]]

Sel_save_task_result(rows, tid, res) ==
  IF tid \notin DOMAIN rows THEN rows
  ELSE [rows EXCEPT ![tid] = [@ EXCEPT !.results = res]]

\* a get_running_tasks that does not filter by selector_type
Sel_get_running_tasks_AnyType(rows, ty) ==
  {t \in DOMAIN rows : rows[t].status \in NonTerminal}

Sel_get_running_tasks(rows, ty) ==
  {t \in DOMAIN rows : rows[t].status \in NonTerminal /\ rows[t].selector_type = ty}

\* ------------------------------------------------------ SelectorScheduler
SelActive == env.sched = "selector"

\* start_background_selection, line 51 -> _get_lock line 28: the membership test
SelGetLockCheck(c, ty) ==
  /\ SelActive /\ caller[c].pc = "idle" /\ IdAvailable
  /\ caller' = [caller EXCEPT ![c] =
       [Idle EXCEPT !.ty = ty,
                    !.pc = IF ty \in DOMAIN sel_task_locks
                           THEN "acquire" ELSE "getlock_insert"]]
  /\ UNCHANGED notSel
  /\ UNCHANGED <<env, next_id, worker, selVars>>

\* _get_lock line 29: self._task_locks[selector_type] = threading.Lock()
\* (the Lock object made by caller c for type ty is <<ty, c>>)
SelGetLockInsert(c) ==
  /\ SelActive /\ caller[c].pc = "getlock_insert"
  /\ sel_task_locks' =
       [t \in DOMAIN sel_task_locks \cup {caller[c].ty} |->
          IF t = caller[c].ty THEN <<caller[c].ty, c>> ELSE sel_task_locks[t]]
  /\ caller' = [caller EXCEPT ![c].pc = "acquire"]
  /\ UNCHANGED notSel
  /\ UNCHANGED <<env, next_id, worker, sel_held, sel_cancel_events,
                 sel_running_threads, sel_event_set, sel_rows>>

\* _get_lock line 30: the lock start_background_selection gets
SelGetLock(c) == sel_task_locks[caller[c].ty]

\* a busy start that also drops the cancel events of the type's running tasks
SelStartBusyDropsEvents(c) ==
  /\ SelActive /\ caller[c].pc = "acquire"
  /\ SelGetLock(c) \in sel_held
  /\ caller' = [caller EXCEPT ![c].pc = "busy"]
  /\ sel_cancel_events' = {}
  /\ UNCHANGED notSel
  /\ UNCHANGED <<env, next_id, worker, sel_task_locks, sel_held,
                 sel_running_threads, sel_event_set, sel_rows>>

\* lines 30, 53-58: lock.acquire(blocking=False) fails: return success=False
SelStartBusy(c) ==
  /\ SelActive /\ caller[c].pc = "acquire"
  /\ SelGetLock(c) \in sel_held
  /\ caller' = [caller EXCEPT ![c].pc = "busy"]
  /\ UNCHANGED notSel
  /\ UNCHANGED <<env, next_id, worker, selVars>>

\* lines 30, 53: lock.acquire(blocking=False) succeeds
SelAcquire(c) ==
  /\ SelActive /\ caller[c].pc = "acquire"
  /\ SelGetLock(c) \notin sel_held
  /\ sel_held' = sel_held \cup {SelGetLock(c)}
  /\ caller' = [caller EXCEPT ![c].pc = "check_store", ![c].lock = SelGetLock(c)]
  /\ UNCHANGED notSel
  /\ UNCHANGED <<env, next_id, worker, sel_task_locks, sel_cancel_events,
                 sel_running_threads, sel_event_set, sel_rows>>

\* a store-busy rejection that returns without lock.release()
SelStartStoreBusyKeepsLock(c) ==
  /\ SelActive /\ caller[c].pc = "check_store"
  /\ Sel_get_running_tasks(sel_rows, caller[c].ty) # {}
  /\ caller' = [caller EXCEPT ![c].pc = "store_busy", ![c].lock = NoLock]
  /\ UNCHANGED notSel
  /\ UNCHANGED <<env, next_id, worker, selVars>>

\* lines 62-69: the store holds an unfinished task of the type: release, reject
SelStartStoreBusy(c) ==
  /\ SelActive /\ caller[c].pc = "check_store"
  /\ Sel_get_running_tasks(sel_rows, caller[c].ty) # {}
  /\ sel_held' = sel_held \ {caller[c].lock}
  /\ caller' = [caller EXCEPT ![c].pc = "store_busy", ![c].lock = NoLock]
  /\ UNCHANGED notSel
  /\ UNCHANGED <<env, next_id, worker, sel_task_locks, sel_cancel_events,
                 sel_running_threads, sel_event_set, sel_rows>>

\* lines 62-76: no unfinished task: draw the task id, register the cancel event
SelNewTask(c) ==
  /\ SelActive /\ caller[c].pc = "check_store"
  /\ Sel_get_running_tasks(sel_rows, caller[c].ty) = {}
  /\ next_id' = next_id + 1
  /\ sel_cancel_events' = sel_cancel_events \cup {next_id}
  /\ caller' = [caller EXCEPT ![c].pc = "create", ![c].task_id = next_id]
  /\ UNCHANGED notSel
  /\ UNCHANGED <<env, worker, sel_task_locks, sel_held, sel_running_threads,
                 sel_event_set, sel_rows>>

SelNewWorker(c) ==
  [pc |-> "set_running", ty |-> caller[c].ty, lock |-> caller[c].lock,
   result |-> NULL, error |-> NULL]

\* lines 79-106: create_task, register and start the thread, return success
SelCreateAndSpawn(c) ==
  /\ SelActive /\ caller[c].pc = "create"
  /\ sel_rows' = Sel_create_task(sel_rows, caller[c].task_id, caller[c].ty)
  /\ sel_running_threads' = sel_running_threads \cup {caller[c].task_id}
  /\ worker' = [t \in DOMAIN worker \cup {caller[c].task_id} |->
                  IF t = caller[c].task_id THEN SelNewWorker(c) ELSE worker[t]]
  /\ caller' = [caller EXCEPT ![c] = Idle]
  /\ UNCHANGED notSel
  /\ UNCHANGED <<env, next_id, sel_task_locks, sel_held, sel_cancel_events,
                 sel_event_set>>

\* ---- _run_selection (the worker thread of task t)
SelAt(t, pc) == SelActive /\ t \in DOMAIN worker /\ worker[t].pc = pc

SelStep(t, pc) ==
  /\ worker' = [worker EXCEPT ![t].pc = pc]
  /\ UNCHANGED notSel
  /\ UNCHANGED <<env, next_id, caller, sel_task_locks, sel_held,
                 sel_cancel_events, sel_running_threads, sel_event_set>>

\* line 129
SelSetRunning(t) ==
  /\ SelAt(t, "set_running")
  /\ sel_rows' = Sel_update_task_status(sel_rows, t, "running", NULL)
  /\ SelStep(t, "progress_10")

\* line 130
SelProgress10(t) ==
  /\ SelAt(t, "progress_10")
  /\ sel_rows' = Sel_update_task_progress(sel_rows, t, "fetching data", 10)
  /\ SelStep(t, "check_1")

\* a cancelled return that leaves _run_selection past its finally block
SelCancelledBeforeNoFinally(t) ==
  /\ SelAt(t, "check_1") /\ t \in sel_event_set
  /\ sel_rows' = Sel_update_task_status(sel_rows, t, "cancelled", NULL)
  /\ SelStep(t, "done")

\* lines 135-137: cancelled before the selection function was called
SelCancelledBefore(t) ==
  /\ SelAt(t, "check_1") /\ t \in sel_event_set
  /\ sel_rows' = Sel_update_task_status(sel_rows, t, "cancelled", NULL)
  /\ SelStep(t, "cleanup")

\* lines 135, 140, 143: not cancelled: progress 30, selection_func is called
SelProgress30(t) ==
  /\ SelAt(t, "check_1") /\ t \notin sel_event_set
  /\ sel_rows' = Sel_update_task_progress(sel_rows, t, "filtering stocks", 30)
  /\ SelStep(t, "call")

\* a second cancel check that stores the function's result before cancelling
SelCancelledAfterSavesResult(t) ==
  /\ SelAt(t, "call") /\ t \in sel_event_set
  /\ sel_rows' = Sel_update_task_status(Sel_save_task_result(sel_rows, t, "ok"),
                                         t, "cancelled", NULL)
  /\ SelStep(t, "cleanup")

\* lines 143-148: selection_func returns; cancelled while it ran
SelCancelledAfter(t) ==
  /\ SelAt(t, "call") /\ t \in sel_event_set
  /\ sel_rows' = Sel_update_task_status(sel_rows, t, "cancelled", NULL)
  /\ SelStep(t, "cleanup")

\* lines 143-151: selection_func returns `out` (with 'error' msg if it reports
\* failure); not cancelled: progress 80
SelProgress80(t, out, msg) ==
  /\ SelAt(t, "call") /\ t \notin sel_event_set
  /\ out # "raise"
  /\ out = "ok" => msg = "error"
  /\ sel_rows' = Sel_update_task_progress(sel_rows, t, "saving results", 80)
  /\ worker' = [worker EXCEPT ![t].pc = "save", ![t].result = out,
                              ![t].error = IF out = "fail" THEN msg ELSE NULL]
  /\ UNCHANGED notSel
  /\ UNCHANGED <<env, next_id, caller, sel_task_locks, sel_held,
                 sel_cancel_events, sel_running_threads, sel_event_set>>

\* lines 143, 175-178: selection_func raises e: the outer except, msg is str(e)
SelExcept(t, msg) ==
  /\ SelAt(t, "call")
  /\ sel_rows' = Sel_update_task_status(sel_rows, t, "failed", msg)
  /\ SelStep(t, "cleanup")

\* a worker that goes on to the final status without saving the result
SelSaveResultSkipped(t) ==
  /\ SelAt(t, "save")
  /\ UNCHANGED sel_rows
  /\ SelStep(t, "final_status")

\* line 154
SelSaveResult(t) ==
  /\ SelAt(t, "save")
  /\ sel_rows' = Sel_save_task_result(sel_rows, t, worker[t].result)
  /\ SelStep(t, "final_status")

\* lines 157-158: result.get('success') is true
SelSetCompleted(t) ==
  /\ SelAt(t, "final_status") /\ worker[t].result = "ok"
  /\ sel_rows' = Sel_update_task_status(sel_rows, t, "completed", NULL)
  /\ SelStep(t, "progress_100")

\* a progress update that empties the results column
SelProgress100ClearsResults(t) ==
  /\ SelAt(t, "progress_100")
  /\ sel_rows' = Sel_save_task_result(
                    Sel_update_task_progress(sel_rows, t, "done", 100), t, NULL)
  /\ SelStep(t, "cleanup")

\* line 159
SelProgress100(t) ==
  /\ SelAt(t, "progress_100")
  /\ sel_rows' = Sel_update_task_progress(sel_rows, t, "done", 100)
  /\ SelStep(t, "cleanup")

\* lines 161-165: result.get('success') is false
SelSetFailed(t) ==
  /\ SelAt(t, "final_status") /\ worker[t].result = "fail"
  /\ sel_rows' = Sel_update_task_status(sel_rows, t, "failed", worker[t].error)
  /\ SelStep(t, "cleanup")

\* lines 181, 217-222: finally: self._cleanup_task(task_id).  The Event object
\* is not read again by anyone: it is dropped from the model's state here.
SelCleanupTask(t) ==
  /\ SelAt(t, "cleanup")
  /\ sel_cancel_events' = sel_cancel_events \ {t}
  /\ sel_running_threads' = sel_running_threads \ {t}
  /\ sel_event_set' = sel_event_set \ {t}
  /\ worker' = [worker EXCEPT ![t].pc = "release", ![t].result = NULL,
                              ![t].error = NULL]
  /\ UNCHANGED notSel
  /\ UNCHANGED <<env, next_id, caller, sel_task_locks, sel_held, sel_rows>>

\* line 182: lock.release(); the thread ends
SelRelease(t) ==
  /\ SelAt(t, "release")
  /\ sel_held' = sel_held \ {worker[t].lock}
  /\ worker' = [worker EXCEPT ![t].pc = "done"]
  /\ UNCHANGED notSel
  /\ UNCHANGED <<env, next_id, caller, sel_task_locks, sel_cancel_events,
                 sel_running_threads, sel_event_set, sel_rows>>

\* ---- cancel_task, lines 196-215 (any thread may call it)
\* lines 198-203: the event is registered: set it
SelCancelSignal(t) ==
  /\ SelActive
  /\ t \in sel_cancel_events
  /\ sel_event_set' = sel_event_set \cup {t}
  /\ UNCHANGED notSel
  /\ UNCHANGED <<env, next_id, caller, worker, sel_task_locks, sel_held,
                 sel_cancel_events, sel_running_threads, sel_rows>>

\* lines 205-211: no event, the row is unfinished: mark the row cancelled
SelCancelFallback(t) ==
  /\ SelActive
  /\ t \notin sel_cancel_events
  /\ t \in DOMAIN sel_rows /\ sel_rows[t].status \in NonTerminal
  /\ sel_rows' = Sel_update_task_status(sel_rows, t, "cancelled", NULL)
  /\ UNCHANGED notSel
  /\ UNCHANGED <<env, next_id, caller, worker, sel_task_locks, sel_held,
                 sel_cancel_events, sel_running_threads, sel_event_set>>

\* lines 212-215: no event, no unfinished row: success=False
SelCancelRejected(t) ==
  /\ SelActive
  /\ t \notin sel_cancel_events
  /\ ~(t \in DOMAIN sel_rows /\ sel_rows[t].status \in NonTerminal)
  /\ UNCHANGED notSel
  /\ UNCHANGED <<env, next_id, caller, worker, selVars>>

SelNext ==
  \/ \E c \in Callers, ty \in SelTypes : SelGetLockCheck(c, ty)
  \/ \E c \in Callers : SelGetLockInsert(c)
  \/ \E c \in Callers : SelStartBusy(c)
  \/ \E c \in Callers : SelAcquire(c)
  \/ \E c \in Callers : SelStartStoreBusy(c)
  \/ \E c \in Callers : SelNewTask(c)
  \/ \E c \in Callers : SelCreateAndSpawn(c)
  \/ \E t \in FreshIds : SelSetRunning(t)
  \/ \E t \in FreshIds : SelProgress10(t)
  \/ \E t \in FreshIds : SelCancelledBefore(t)
  \/ \E t \in FreshIds : SelProgress30(t)
  \/ \E t \in FreshIds : SelCancelledAfter(t)
  \/ \E t \in FreshIds, out \in Outcomes, msg \in ErrorTexts : SelProgress80(t, out, msg)
  \/ \E t \in FreshIds, msg \in ExceptionTexts : SelExcept(t, msg)
  \/ \E t \in FreshIds : SelSaveResult(t)
  \/ \E t \in FreshIds : SelSetCompleted(t)
  \/ \E t \in FreshIds : SelProgress100(t)
  \/ \E t \in FreshIds : SelSetFailed(t)
  \/ \E t \in FreshIds : SelCleanupTask(t)
  \/ \E t \in FreshIds : SelRelease(t)
  \/ \E t \in TaskIds : SelCancelSignal(t)
  \/ \E t \in TaskIds : SelCancelFallback(t)
  \/ \E t \in TaskIds : SelCancelRejected(t)

\* -------------------------------------------------- MainForceBatchDatabase
\* A row of batch_task_status.  current_stock and history_record_id are 0 for
\* SQL NULL; subjects (stock codes) are 1..n in the order of stock_codes.
MFNewRow(n) ==
  [status |-> "pending", total_count |-> n, completed_count |-> 0,
   success_count |-> 0, failed_count |-> 0, current_stock |-> 0,
   progress_percent |-> 0, error_message |-> NULL, history_record_id |-> 0,
   started_at |-> FALSE, completed_at |-> FALSE]

MF_create_task(rows, tid, n) ==
  [t \in DOMAIN rows \cup {tid} |-> IF t = tid THEN MFNewRow(n) ELSE rows[t]]

\* `given` holds the optional arguments that are not None
MFUpdate(rows, tid, given) ==
  IF tid \notin DOMAIN rows THEN rows
  ELSE [rows EXCEPT ![tid] =
          [f \in DOMAIN rows[tid] |->
             IF f \in DOMAIN given THEN given[f] ELSE rows[tid][f]]]

MF_update_task_status(rows, tid, status, given) ==
  MFUpdate(rows, tid, [f \in DOMAIN given \cup {"status"} |->
                         IF f = "status" THEN status ELSE given[f]])

MF_update_task_progress(rows, tid, completed_count, given) ==
  MFUpdate(rows, tid, [f \in DOMAIN given \cup {"completed_count"} |->
                         IF f = "completed_count" THEN completed_count
                         ELSE given[f]])

\* get_running_task: the rows a start is rejected for
MF_get_running_task(rows) == {t \in DOMAIN rows : rows[t].status \in NonTerminal}

\* a failed count that counts every outcome
NumOutcomes(results) == Len(results)

NumSuccess(results) ==
  Cardinality({k \in 1..Len(results) : results[k].success})
NumFailed(results) ==
  Cardinality({k \in 1..Len(results) : ~results[k].success})

\* the share of the units still to do
PercentRemaining(x, total) == ((total - x) * 100) \div total

\* (x / total) * 100, a float in the code: its integer part
Percent(x, total) == (x * 100) \div total

\* an _analyze_single that reports every unit as a success
MF_analyze_single_AlwaysOk(code, out) == [symbol |-> code, success |-> TRUE]

\* _analyze_single(code): the unit's result dict.  What the analysis raises is
\* caught and becomes a result with success False.
MF_analyze_single(code, out) == [symbol |-> code, success |-> out = "ok"]

\* save_batch_analysis: INSERT INTO batch_analysis_history; returns lastrowid
MF_save_batch_analysis(history, batch_count, success_count, failed_count, results) ==
  Append(history, [batch_count |-> batch_count, success_count |-> success_count,
                   failed_count |-> failed_count, results |-> results])

\* ------------------------------------------------ MainForceBatchScheduler
MFActive == env.sched = "main_force"

\* lines 51-55: the lock is taken: return success=False
MFStartBusy(c) ==
  /\ MFActive /\ caller[c].pc = "idle" /\ IdAvailable
  /\ mf_task_lock
  /\ caller' = [caller EXCEPT ![c].pc = "busy"]
  /\ UNCHANGED notMF
  /\ UNCHANGED <<env, next_id, worker, mfVars>>

\* line 51: self._task_lock.acquire(blocking=False) succeeds
MFAcquire(c) ==
  /\ MFActive /\ caller[c].pc = "idle" /\ IdAvailable
  /\ ~mf_task_lock
  /\ mf_task_lock' = TRUE
  /\ caller' = [caller EXCEPT ![c].pc = "mf_check_store"]
  /\ UNCHANGED notMF
  /\ UNCHANGED <<env, next_id, worker, mf_cancel_flag, mf_current_task_id,
                 mf_rows, mf_history>>

\* a store-busy rejection of the main-force start that returns without
\* releasing the lock
MFStartStoreBusyKeepsLock(c) ==
  /\ MFActive /\ caller[c].pc = "mf_check_store"
  /\ MF_get_running_task(mf_rows) # {}
  /\ caller' = [caller EXCEPT ![c].pc = "store_busy"]
  /\ UNCHANGED notMF
  /\ UNCHANGED <<env, next_id, worker, mfVars>>

\* lines 59-65: the store holds an unfinished task: release, return success=False
MFStartStoreBusy(c) ==
  /\ MFActive /\ caller[c].pc = "mf_check_store"
  /\ MF_get_running_task(mf_rows) # {}
  /\ mf_task_lock' = FALSE
  /\ caller' = [caller EXCEPT ![c].pc = "store_busy"]
  /\ UNCHANGED notMF
  /\ UNCHANGED <<env, next_id, worker, mf_cancel_flag, mf_current_task_id,
                 mf_rows, mf_history>>

\* lines 59-69: no unfinished task: draw the id, set _current_task_id
MFNewTask(c) ==
  /\ MFActive /\ caller[c].pc = "mf_check_store"
  /\ MF_get_running_task(mf_rows) = {}
  /\ next_id' = next_id + 1
  /\ mf_current_task_id' = {next_id}
  /\ caller' = [caller EXCEPT ![c].pc = "mf_clear_flag", ![c].task_id = next_id]
  /\ UNCHANGED notMF
  /\ UNCHANGED <<env, worker, mf_task_lock, mf_cancel_flag, mf_rows, mf_history>>

\* line 70: self._cancel_flag.clear()
MFClearFlag(c) ==
  /\ MFActive /\ caller[c].pc = "mf_clear_flag"
  /\ mf_cancel_flag' = FALSE
  /\ caller' = [caller EXCEPT ![c].pc = "mf_create"]
  /\ UNCHANGED notMF
  /\ UNCHANGED <<env, next_id, worker, mf_task_lock, mf_current_task_id,
                 mf_rows, mf_history>>

\* concurrent.futures.as_completed as the loops of the bounded-parallel mode use
\* it. `order` holds the units that ended and were not yet yielded, in the order
\* in which they ended. At its first next() as_completed sets aside the futures
\* that are already done (`snap`) and yields those first, in the iteration order
\* of a set, which is any order; the others follow in the order in which they end
Yielded(w) == {u \in DOMAIN w.units : w.units[u] = "yielded"}

\* an as_completed that yields the futures that are done in any order, at its
\* first next() and later
AsCompletedAnyDone(w) ==
  {u \in DOMAIN w.units : w.units[u] \in {"ok", "fail"}}

AsCompletedNext(w) ==
  IF Yielded(w) = {}
    THEN {u \in DOMAIN w.units : w.units[u] \in {"ok", "fail"}}
    ELSE IF w.snap # {} THEN w.snap
    ELSE IF w.order = <<>> THEN {} ELSE {Head(w.order)}
AsCompletedTake(w, u) ==
  [w EXCEPT !.snap = (IF Yielded(w) = {} THEN AsCompletedNext(w) ELSE @) \ {u},
            !.order = SelectSeq(@, LAMBDA x : x # u),
            !.units[u] = "yielded"]
UnitEnds(w, u, ok) ==
  [w EXCEPT !.units[u] = IF ok THEN "ok" ELSE "fail",
            !.order = IF w.pc = "collect" THEN Append(@, u) ELSE @]

MFNewWorker ==
  [pc |-> "set_running", i |-> 0, results |-> <<>>, units |-> <<>>,
   order |-> <<>>, snap |-> {}, history_id |-> 0]

\* lines 73-93: create_task, start the thread, return success
MFCreateAndSpawn(c) ==
  /\ MFActive /\ caller[c].pc = "mf_create"
  /\ mf_rows' = MF_create_task(mf_rows, caller[c].task_id, env.n)
  /\ worker' = [t \in DOMAIN worker \cup {caller[c].task_id} |->
                  IF t = caller[c].task_id THEN MFNewWorker ELSE worker[t]]
  /\ caller' = [caller EXCEPT ![c] = Idle]
  /\ UNCHANGED notMF
  /\ UNCHANGED <<env, next_id, mf_task_lock, mf_cancel_flag, mf_current_task_id,
                 mf_history>>

\* ---- _run_analysis (the worker thread of task t)
MFAt(t, pc) == MFActive /\ t \in DOMAIN worker /\ worker[t].pc = pc

MFFrame ==
  /\ UNCHANGED notMF
  /\ UNCHANGED <<env, next_id, caller, mf_task_lock, mf_cancel_flag,
                 mf_current_task_id>>

\* line 123
MFSetRunning(t) ==
  /\ MFAt(t, "set_running")
  /\ mf_rows' = MF_update_task_status(mf_rows, t, "running", [started_at |-> TRUE])
  /\ worker' = [worker EXCEPT ![t].pc =
       IF env.mode = "sequential" THEN "loop" ELSE "pool_create"]
  /\ UNCHANGED mf_history
  /\ MFFrame

\* lines 140-143: every code was analysed, or the flag is set: leave the loop
MFSeqLeave(t) ==
  /\ MFAt(t, "loop")
  /\ worker[t].i = env.n \/ mf_cancel_flag
  /\ worker' = [worker EXCEPT ![t].pc = "final_check"]
  /\ UNCHANGED <<mf_rows, mf_history>>
  /\ MFFrame

\* a loop that goes on to the next code whatever the cancel flag is
MFSeqBeginIgnoresFlag(t) ==
  /\ MFAt(t, "loop")
  /\ worker[t].i < env.n
  /\ mf_rows' = MF_update_task_progress(mf_rows, t, worker[t].i,
       [current_stock |-> worker[t].i + 1,
        progress_percent |-> Percent(worker[t].i, env.n)])
  /\ worker' = [worker EXCEPT ![t].pc = "unit"]
  /\ UNCHANGED mf_history
  /\ MFFrame

\* lines 140-151: next code, flag not set: the progress update before the unit
MFSeqBegin(t) ==
  /\ MFAt(t, "loop")
  /\ worker[t].i < env.n /\ ~mf_cancel_flag
  /\ mf_rows' = MF_update_task_progress(mf_rows, t, worker[t].i,
       [current_stock |-> worker[t].i + 1,
        progress_percent |-> Percent(worker[t].i, env.n)])
  /\ worker' = [worker EXCEPT ![t].pc = "unit"]
  /\ UNCHANGED mf_history
  /\ MFFrame

\* lines 153-163: the analysis ends with `out`, _analyze_single returns, the
\* result is appended, the progress update after the unit
MFSeqUnit(t, out) ==
  /\ MFAt(t, "unit")
  /\ LET rs == Append(worker[t].results, MF_analyze_single(worker[t].i + 1, out))
     IN /\ mf_rows' = MF_update_task_progress(mf_rows, t, worker[t].i + 1,
             [success_count |-> NumSuccess(rs), failed_count |-> NumFailed(rs),
              progress_percent |-> Percent(worker[t].i + 1, env.n)])
        /\ worker' = [worker EXCEPT ![t].pc = "loop", ![t].i = @ + 1,
                                    ![t].results = rs]
  /\ UNCHANGED mf_history
  /\ MFFrame

\* lines 166, 235-243: ThreadPoolExecutor(max_workers <= 0) raises ValueError:
\* the outer except writes failed
MFExcept(t) ==
  /\ MFAt(t, "pool_create")
  /\ env.max_workers <= 0
  /\ mf_rows' = MF_update_task_status(mf_rows, t, "failed",
       [error_message |-> "exception", completed_at |-> TRUE])
  /\ worker' = [worker EXCEPT ![t].pc = "finally"]
  /\ UNCHANGED mf_history
  /\ MFFrame

\* lines 166-173: every code is submitted to the pool
MFPoolCreate(t) ==
  /\ MFAt(t, "pool_create")
  /\ env.max_workers > 0
  /\ worker' = [worker EXCEPT ![t].pc = "collect",
                              ![t].units = [u \in 1..env.n |-> "queued"]]
  /\ UNCHANGED <<mf_rows, mf_history>>
  /\ MFFrame

MFPoolLive(t) ==
  MFActive /\ t \in DOMAIN worker /\ worker[t].pc \in {"collect", "pool_exit"}
MFRunning(t) == {u \in DOMAIN worker[t].units : worker[t].units[u] = "running"}
MFFinished(t) ==
  {u \in DOMAIN worker[t].units : worker[t].units[u] \in {"ok", "fail"}}

\* a pool thread takes a queued unit
MFUnitStart(t, u) ==
  /\ MFPoolLive(t)
  /\ u \in DOMAIN worker[t].units /\ worker[t].units[u] = "queued"
  /\ Cardinality(MFRunning(t)) < env.max_workers
  /\ worker' = [worker EXCEPT ![t].units[u] = "running"]
  /\ UNCHANGED <<mf_rows, mf_history>>
  /\ MFFrame

\* the analysis ends with `out` in a pool thread, _analyze_single returns: the
\* future is done and holds the result dict
MFUnitFinish(t, u, out) ==
  /\ MFPoolLive(t)
  /\ u \in DOMAIN worker[t].units /\ worker[t].units[u] = "running"
  /\ worker' = [worker EXCEPT
       ![t] = UnitEnds(@, u, MF_analyze_single(u, out).success)]
  /\ UNCHANGED <<mf_rows, mf_history>>
  /\ MFFrame

\* lines 174-180: as_completed yields a future, the flag is set: cancel every
\* future (only a queued one can be cancelled), leave the loop
MFCollectCancel(t) ==
  /\ MFAt(t, "collect")
  /\ MFFinished(t) # {} /\ mf_cancel_flag
  /\ worker' = [worker EXCEPT ![t].pc = "pool_exit",
       ![t].order = <<>>, ![t].snap = {},
       ![t].units = [u \in DOMAIN @ |-> IF @[u] = "queued" THEN "cancelled" ELSE @[u]]]
  /\ UNCHANGED <<mf_rows, mf_history>>
  /\ MFFrame

\* a collect in which the failure of one unit fails the whole task
MFCollectFailAborts(t, u) ==
  /\ MFAt(t, "collect")
  /\ u \in AsCompletedNext(worker[t]) /\ ~mf_cancel_flag
  /\ IF worker[t].units[u] = "fail"
       THEN /\ mf_rows' = MF_update_task_status(mf_rows, t, "failed",
                   [error_message |-> "exception", completed_at |-> TRUE])
            /\ worker' = [worker EXCEPT ![t].pc = "finally", ![t].units = <<>>,
                                        ![t].order = <<>>, ![t].snap = {}]
       ELSE LET rs == Append(worker[t].results, [symbol |-> u, success |-> TRUE])
            IN /\ mf_rows' = MF_update_task_progress(mf_rows, t, worker[t].i + 1,
                    [current_stock |-> u,
                     success_count |-> NumSuccess(rs), failed_count |-> NumFailed(rs),
                     progress_percent |-> Percent(worker[t].i + 1, env.n)])
               /\ worker' = [worker EXCEPT
                    ![t] = [AsCompletedTake(@, u) EXCEPT !.i = @ + 1, !.results = rs]]
  /\ UNCHANGED mf_history
  /\ MFFrame

\* lines 174-200: as_completed yields the future of u, the flag is not set:
\* the result is appended, the progress update
MFCollect(t, u) ==
  /\ MFAt(t, "collect")
  /\ u \in AsCompletedNext(worker[t]) /\ ~mf_cancel_flag
  /\ LET rs == Append(worker[t].results,
                      [symbol |-> u, success |-> worker[t].units[u] = "ok"])
     IN /\ mf_rows' = MF_update_task_progress(mf_rows, t, worker[t].i + 1,
             [current_stock |-> u,
              success_count |-> NumSuccess(rs), failed_count |-> NumFailed(rs),
              progress_percent |-> Percent(worker[t].i + 1, env.n)])
        /\ worker' = [worker EXCEPT
             ![t] = [AsCompletedTake(@, u) EXCEPT !.i = @ + 1, !.results = rs]]
  /\ UNCHANGED mf_history
  /\ MFFrame

\* line 174: as_completed is exhausted
MFCollectDone(t) ==
  /\ MFAt(t, "collect")
  /\ \A u \in DOMAIN worker[t].units : worker[t].units[u] = "yielded"
  /\ worker' = [worker EXCEPT ![t].pc = "pool_exit"]
  /\ UNCHANGED <<mf_rows, mf_history>>
  /\ MFFrame

\* a pool exit that also waits for the futures that were cancelled
MFPoolExitWaitsForCancelled(t) ==
  /\ MFAt(t, "pool_exit")
  /\ \A u \in DOMAIN worker[t].units :
       worker[t].units[u] \notin {"queued", "running", "cancelled"}
  /\ worker' = [worker EXCEPT ![t].pc = "final_check", ![t].units = <<>>]
  /\ UNCHANGED <<mf_rows, mf_history>>
  /\ MFFrame

\* line 166: leaving the with block is shutdown(wait=True): it returns when no
\* unit is queued or running
MFPoolExit(t) ==
  /\ MFAt(t, "pool_exit")
  /\ \A u \in DOMAIN worker[t].units : worker[t].units[u] \notin {"queued", "running"}
  /\ worker' = [worker EXCEPT ![t].pc = "final_check", ![t].units = <<>>]
  /\ UNCHANGED <<mf_rows, mf_history>>
  /\ MFFrame

\* lines 204-216: the flag is not set: save_batch_analysis
MFSaveHistory(t) ==
  /\ MFAt(t, "final_check")
  /\ ~mf_cancel_flag
  /\ mf_history' = MF_save_batch_analysis(mf_history, env.n,
       NumSuccess(worker[t].results),
       Len(worker[t].results) - NumSuccess(worker[t].results),
       worker[t].results)
  /\ worker' = [worker EXCEPT ![t].pc = "set_completed",
                              ![t].history_id = Len(mf_history) + 1]
  /\ UNCHANGED mf_rows
  /\ MFFrame

\* lines 219-224
MFSetCompleted(t) ==
  /\ MFAt(t, "set_completed")
  /\ mf_rows' = MF_update_task_status(mf_rows, t, "completed",
       [completed_at |-> TRUE, history_record_id |-> worker[t].history_id])
  /\ worker' = [worker EXCEPT ![t].pc = "finally"]
  /\ UNCHANGED mf_history
  /\ MFFrame

\* lines 208, 233: the flag is set
MFSetCancelled(t) ==
  /\ MFAt(t, "final_check")
  /\ mf_cancel_flag
  /\ mf_rows' = MF_update_task_status(mf_rows, t, "cancelled", [completed_at |-> TRUE])
  /\ worker' = [worker EXCEPT ![t].pc = "finally"]
  /\ UNCHANGED mf_history
  /\ MFFrame

\* line 245: finally: self._current_task_id = None
MFFinallyClear(t) ==
  /\ MFAt(t, "finally")
  /\ mf_current_task_id' = {}
  /\ worker' = [worker EXCEPT ![t] = [MFNewWorker EXCEPT !.pc = "release"]]
  /\ UNCHANGED notMF
  /\ UNCHANGED <<env, next_id, caller, mf_task_lock, mf_cancel_flag, mf_rows,
                 mf_history>>

\* line 246: self._task_lock.release(); the thread ends
MFRelease(t) ==
  /\ MFAt(t, "release")
  /\ mf_task_lock' = FALSE
  /\ worker' = [worker EXCEPT ![t].pc = "done"]
  /\ UNCHANGED notMF
  /\ UNCHANGED <<env, next_id, caller, mf_cancel_flag, mf_current_task_id,
                 mf_rows, mf_history>>

\* ---- cancel_task(task_id=None), lines 272-289; arg is {} for None
\* lines 282-283
MFCancelMismatch(arg) ==
  /\ MFActive
  /\ arg # {} /\ mf_current_task_id # arg
  /\ UNCHANGED notMF
  /\ UNCHANGED <<env, next_id, caller, worker, mfVars>>

\* lines 285-286
MFCancelNoTask(arg) ==
  /\ MFActive
  /\ ~(arg # {} /\ mf_current_task_id # arg)
  /\ mf_current_task_id = {}
  /\ UNCHANGED notMF
  /\ UNCHANGED <<env, next_id, caller, worker, mfVars>>

\* lines 288-289
MFCancelAccept(arg) ==
  /\ MFActive
  /\ ~(arg # {} /\ mf_current_task_id # arg)
  /\ mf_current_task_id # {}
  /\ mf_cancel_flag' = TRUE
  /\ UNCHANGED notMF
  /\ UNCHANGED <<env, next_id, caller, worker, mf_task_lock, mf_current_task_id,
                 mf_rows, mf_history>>

CancelArgs == {{}} \cup {{t} : t \in TaskIds}

MFNext ==
  \/ \E c \in Callers : MFStartBusy(c)
  \/ \E c \in Callers : MFAcquire(c)
  \/ \E c \in Callers : MFStartStoreBusy(c)
  \/ \E c \in Callers : MFNewTask(c)
  \/ \E c \in Callers : MFClearFlag(c)
  \/ \E c \in Callers : MFCreateAndSpawn(c)
  \/ \E t \in FreshIds : MFSetRunning(t)
  \/ \E t \in FreshIds : MFSeqLeave(t)
  \/ \E t \in FreshIds : MFSeqBegin(t)
  \/ \E t \in FreshIds, out \in Outcomes : MFSeqUnit(t, out)
  \/ \E t \in FreshIds : MFExcept(t)
  \/ \E t \in FreshIds : MFPoolCreate(t)
  \/ \E t \in FreshIds, u \in 1..MaxUnits : MFUnitStart(t, u)
  \/ \E t \in FreshIds, u \in 1..MaxUnits, out \in Outcomes : MFUnitFinish(t, u, out)
  \/ \E t \in FreshIds : MFCollectCancel(t)
  \/ \E t \in FreshIds, u \in 1..MaxUnits : MFCollect(t, u)
  \/ \E t \in FreshIds : MFCollectDone(t)
  \/ \E t \in FreshIds : MFPoolExit(t)
  \/ \E t \in FreshIds : MFSaveHistory(t)
  \/ \E t \in FreshIds : MFSetCompleted(t)
  \/ \E t \in FreshIds : MFSetCancelled(t)
  \/ \E t \in FreshIds : MFFinallyClear(t)
  \/ \E t \in FreshIds : MFRelease(t)
  \/ \E arg \in CancelArgs : MFCancelMismatch(arg)
  \/ \E arg \in CancelArgs : MFCancelNoTask(arg)
  \/ \E arg \in CancelArgs : MFCancelAccept(arg)

\* ---------------------------------------------------- StockAnalysisTaskDB
\* datetime.now().isoformat(): the local time of the host, with no zone
LocalNow == clock + env.utc_offset

\* A row of analysis_tasks.  results is {} for SQL NULL, else {the saved list};
\* current_symbol is 0 for NULL; symbols are 1..n in the order of the list;
\* created_at is the local time of the insert.
SANewRow(task_type, n) ==
  [task_type |-> task_type, status |-> "pending", total_count |-> n,
   completed_count |-> 0, current_symbol |-> 0, progress_percent |-> 0,
   results |-> {}, error_message |-> NULL,
   started_at |-> FALSE, completed_at |-> FALSE, created_at |-> LocalNow]

SA_create_task(rows, tid, task_type, n) ==
  [t \in DOMAIN rows \cup {tid} |->
     IF t = tid THEN SANewRow(task_type, n) ELSE rows[t]]

SA_update_task_status(rows, tid, status, err) ==
  IF tid \notin DOMAIN rows THEN rows
  ELSE [rows EXCEPT ![tid] =
          [@ EXCEPT !.status = status,
                    !.started_at = IF status = "running" THEN TRUE ELSE @,
                    !.completed_at = IF status \in Terminal THEN TRUE ELSE @,
                    !.error_message = IF err \notin {NULL, ""} THEN err ELSE @]]

SA_update_task_progress(rows, tid, current_symbol, completed_count, pct) ==
  IF tid \notin DOMAIN rows THEN rows
  ELSE [rows EXCEPT ![tid] = [@ EXCEPT !.current_symbol = current_symbol,
                                       !.completed_count = completed_count,
                                       !.progress_percent = pct]]

SA_save_task_result(rows, tid, res) ==
  IF tid \notin DOMAIN rows THEN rows
  ELSE [rows EXCEPT ![tid] = [@ EXCEPT !.results = {res}]]

\* analyze_single_stock(symbol, ...): its body is one try block, what is raised
\* in it is caught and becomes a result with success False
SA_analyze_single_stock(symbol, out) == [symbol |-> symbol, success |-> out = "ok"]

\* ------------------------------------------------- StockAnalysisScheduler
SAActive == env.sched = "stock_analysis"

\* start_background_analysis lines 41-71 (task_type single, one symbol) and
\* start_batch_background_analysis lines 115-146 (task_type batch): the task
\* id is drawn and the row created
SACreate(c, task_type) ==
  /\ SAActive /\ caller[c].pc = "idle" /\ IdAvailable
  /\ task_type = env.task_type
  /\ next_id' = next_id + 1
  /\ sa_rows' = SA_create_task(sa_rows, next_id, task_type,
                               IF task_type = "single" THEN 1 ELSE env.n)
  /\ caller' = [caller EXCEPT ![c].pc = "sa_register", ![c].ty = task_type,
                              ![c].task_id = next_id]
  /\ UNCHANGED notSA
  /\ UNCHANGED <<env, worker, sa_cancel_events, sa_running_threads, sa_event_set,
                 sa_cancelling>>

SANewWorker(task_type) ==
  [pc |-> "set_running", ty |-> task_type, i |-> 0, results |-> <<>>,
   units |-> <<>>, order |-> <<>>, snap |-> {}, error |-> NULL]

\* lines 73-92 and 148-167: the cancel event is registered, the thread started
SARegisterAndSpawn(c) ==
  /\ SAActive /\ caller[c].pc = "sa_register"
  /\ sa_cancel_events' = sa_cancel_events \cup {caller[c].task_id}
  /\ sa_running_threads' = sa_running_threads \cup {caller[c].task_id}
  /\ worker' = [t \in DOMAIN worker \cup {caller[c].task_id} |->
                  IF t = caller[c].task_id THEN SANewWorker(caller[c].ty)
                  ELSE worker[t]]
  /\ caller' = [caller EXCEPT ![c] = Idle]
  /\ UNCHANGED notSA
  /\ UNCHANGED <<env, next_id, sa_event_set, sa_cancelling, sa_rows>>

SAAt(t, pc) == SAActive /\ t \in DOMAIN worker /\ worker[t].pc = pc

SAFrame ==
  /\ UNCHANGED notSA
  /\ UNCHANGED <<env, next_id, caller, sa_cancel_events, sa_running_threads,
                 sa_event_set, sa_cancelling>>

SAStep(t, pc) ==
  /\ worker' = [worker EXCEPT ![t].pc = pc]
  /\ SAFrame

\* lines 181 and 246
SASetRunning(t) ==
  /\ SAAt(t, "set_running")
  /\ sa_rows' = SA_update_task_status(sa_rows, t, "running", NULL)
  /\ SAStep(t, IF worker[t].ty = "single" THEN "progress_0" ELSE "pool_create")

\* ---- _run_single_analysis
\* line 182
SASingleProgress0(t) ==
  /\ SAAt(t, "progress_0")
  /\ sa_rows' = SA_update_task_progress(sa_rows, t, 1, 0, 0)
  /\ SAStep(t, "check_1")

\* lines 185-187
SASingleCancelledBefore(t) ==
  /\ SAAt(t, "check_1") /\ t \in sa_event_set
  /\ sa_rows' = SA_update_task_status(sa_rows, t, "cancelled", NULL)
  /\ SAStep(t, "cleanup")

\* lines 185-195: not cancelled: analyze_single_stock is called
SASingleCall(t) ==
  /\ SAAt(t, "check_1") /\ t \notin sa_event_set
  /\ UNCHANGED sa_rows
  /\ SAStep(t, "call")

\* lines 195-205: analyze_single_stock returns; cancelled while it ran
SASingleCancelledAfter(t) ==
  /\ SAAt(t, "call") /\ t \in sa_event_set
  /\ sa_rows' = SA_update_task_status(sa_rows, t, "cancelled", NULL)
  /\ SAStep(t, "cleanup")

\* lines 195-208: analyze_single_stock returns `out` (with 'error' msg if it
\* reports failure); not cancelled
SASingleProgress100(t, out, msg) ==
  /\ SAAt(t, "call") /\ t \notin sa_event_set
  /\ out # "raise"
  /\ out = "ok" => msg = "error"
  /\ sa_rows' = SA_update_task_progress(sa_rows, t, 1, 1, 100)
  /\ worker' = [worker EXCEPT ![t].pc = "save",
       ![t].results = <<SA_analyze_single_stock(1, out)>>,
       ![t].error = IF out = "fail" THEN msg ELSE NULL]
  /\ SAFrame

\* lines 190, 224-226: the import or the call raises: the outer except
SASingleExcept(t) ==
  /\ SAAt(t, "call")
  /\ sa_rows' = SA_update_task_status(sa_rows, t, "failed", "exception")
  /\ SAStep(t, "cleanup")

\* lines 211 and 310
SASaveResult(t) ==
  /\ SAAt(t, "save")
  /\ sa_rows' = SA_save_task_result(sa_rows, t, worker[t].results)
  /\ SAStep(t, "final_status")

\* lines 214-215
SASingleSetCompleted(t) ==
  /\ SAAt(t, "final_status") /\ worker[t].ty = "single"
  /\ worker[t].results[1].success
  /\ sa_rows' = SA_update_task_status(sa_rows, t, "completed", NULL)
  /\ SAStep(t, "cleanup")

\* lines 217-221
SASingleSetFailed(t) ==
  /\ SAAt(t, "final_status") /\ worker[t].ty = "single"
  /\ ~worker[t].results[1].success
  /\ sa_rows' = SA_update_task_status(sa_rows, t, "failed", worker[t].error)
  /\ SAStep(t, "cleanup")

\* ---- _run_batch_analysis
\* lines 258, 326-328: ThreadPoolExecutor(max_workers <= 0) raises ValueError
SABatchExcept(t) ==
  /\ SAAt(t, "pool_create")
  /\ env.max_workers <= 0
  /\ sa_rows' = SA_update_task_status(sa_rows, t, "failed", "exception")
  /\ SAStep(t, "cleanup")

\* lines 258-264: every symbol is submitted to the pool
SAPoolCreate(t) ==
  /\ SAAt(t, "pool_create")
  /\ env.max_workers > 0
  /\ worker' = [worker EXCEPT ![t].pc = "collect",
                              ![t].units = [u \in 1..env.n |-> "queued"]]
  /\ UNCHANGED sa_rows
  /\ SAFrame

SAPoolLive(t) ==
  SAActive /\ t \in DOMAIN worker /\ worker[t].pc \in {"collect", "pool_exit"}
SARunning(t) == {u \in DOMAIN worker[t].units : worker[t].units[u] = "running"}
SAFinished(t) ==
  {u \in DOMAIN worker[t].units : worker[t].units[u] \in {"ok", "fail"}}

\* a pool thread takes a queued unit
SAUnitStart(t, u) ==
  /\ SAPoolLive(t)
  /\ u \in DOMAIN worker[t].units /\ worker[t].units[u] = "queued"
  /\ Cardinality(SARunning(t)) < env.max_workers
  /\ worker' = [worker EXCEPT ![t].units[u] = "running"]
  /\ UNCHANGED sa_rows
  /\ SAFrame

\* analyze_single_stock ends with `out` in a pool thread: the future is done and
\* holds the result dict
SAUnitFinish(t, u, out) ==
  /\ SAPoolLive(t)
  /\ u \in DOMAIN worker[t].units /\ worker[t].units[u] = "running"
  /\ worker' = [worker EXCEPT
       ![t] = UnitEnds(@, u, SA_analyze_single_stock(u, out).success)]
  /\ UNCHANGED sa_rows
  /\ SAFrame

\* lines 266-271: as_completed yields a future, the event is set:
\* executor.shutdown(wait=False) cancels no future; cancelled is written
SABatchCancelled(t) ==
  /\ SAAt(t, "collect")
  /\ SAFinished(t) # {} /\ t \in sa_event_set
  /\ sa_rows' = SA_update_task_status(sa_rows, t, "cancelled", NULL)
  /\ worker' = [worker EXCEPT ![t].pc = "pool_exit", ![t].results = <<>>,
                              ![t].i = 0, ![t].order = <<>>, ![t].snap = {}]
  /\ SAFrame

\* lines 266-283: as_completed yields the future of u, the event is not set
SABatchCollect(t, u) ==
  /\ SAAt(t, "collect")
  /\ u \in AsCompletedNext(worker[t]) /\ t \notin sa_event_set
  /\ sa_rows' = SA_update_task_progress(sa_rows, t, u, worker[t].i + 1,
                                        Percent(worker[t].i + 1, env.n))
  /\ worker' = [worker EXCEPT
       ![t] = [AsCompletedTake(@, u) EXCEPT !.i = @ + 1,
                 !.results = Append(@, [symbol |-> u,
                                        success |-> worker[t].units[u] = "ok"])]]
  /\ SAFrame

\* line 266: as_completed is exhausted: go on to line 310 through the with exit
SABatchCollectDone(t) ==
  /\ SAAt(t, "collect")
  /\ \A u \in DOMAIN worker[t].units : worker[t].units[u] = "yielded"
  /\ worker' = [worker EXCEPT ![t].pc = "pool_exit", ![t].i = 1]
  /\ UNCHANGED sa_rows
  /\ SAFrame

\* line 258: leaving the with block (also by return) is shutdown(wait=True):
\* it returns when no unit is queued or running
SAPoolExit(t) ==
  /\ SAAt(t, "pool_exit")
  /\ \A u \in DOMAIN worker[t].units : worker[t].units[u] \notin {"queued", "running"}
  /\ worker' = [worker EXCEPT ![t].units = <<>>, ![t].i = 0,
                              ![t].pc = IF worker[t].i = 1 THEN "save" ELSE "cleanup"]
  /\ UNCHANGED sa_rows
  /\ SAFrame

\* lines 313-322: failed_count = total - success_count
SABatchSetCompleted(t) ==
  /\ SAAt(t, "final_status") /\ worker[t].ty = "batch"
  /\ sa_rows' = SA_update_task_status(sa_rows, t, "completed",
       IF env.n - NumSuccess(worker[t].results) = 0 THEN NULL ELSE "some failed")
  /\ SAStep(t, "cleanup")

\* lines 229, 330, 367-372: finally: self._cleanup_task(task_id); the thread
\* ends.  The Event object is not read again: it is dropped from the state.
SACleanupTask(t) ==
  /\ SAAt(t, "cleanup")
  /\ sa_cancel_events' = sa_cancel_events \ {t}
  /\ sa_running_threads' = sa_running_threads \ {t}
  /\ sa_event_set' = sa_event_set \ {t}
  /\ worker' = [worker EXCEPT ![t] = [SANewWorker(worker[t].ty) EXCEPT !.pc = "done"]]
  /\ UNCHANGED notSA
  /\ UNCHANGED <<env, next_id, caller, sa_cancelling, sa_rows>>

\* ---- cancel_task, lines 344-365 (any thread may call it)
\* lines 347-352
SACancelSignal(t) ==
  /\ SAActive
  /\ t \in sa_cancel_events
  /\ sa_event_set' = sa_event_set \cup {t}
  /\ UNCHANGED notSA
  /\ UNCHANGED <<env, next_id, caller, worker, sa_cancel_events,
                 sa_running_threads, sa_cancelling, sa_rows>>

\* lines 353-356: no event for t; get_task reads a pending or running row
\* (one cancel_task call at a time is between this read and its update)
SACancelFallbackRead(t) ==
  /\ SAActive
  /\ sa_cancelling = {}
  /\ t \notin sa_cancel_events
  /\ t \in DOMAIN sa_rows /\ sa_rows[t].status \in NonTerminal
  /\ sa_cancelling' = sa_cancelling \cup {t}
  /\ UNCHANGED notSA
  /\ UNCHANGED <<env, next_id, caller, worker, sa_cancel_events,
                 sa_running_threads, sa_event_set, sa_rows>>

\* a fallback that also resets the progress of the row
SACancelFallbackWriteResetsProgress(t) ==
  /\ SAActive
  /\ t \in sa_cancelling
  /\ sa_rows' = SA_update_task_progress(
                   SA_update_task_status(sa_rows, t, "cancelled", NULL), t, 0, 0, 0)
  /\ sa_cancelling' = sa_cancelling \ {t}
  /\ UNCHANGED notSA
  /\ UNCHANGED <<env, next_id, caller, worker, sa_cancel_events,
                 sa_running_threads, sa_event_set>>

\* lines 357-361: the update that follows that read
SACancelFallbackWrite(t) ==
  /\ SAActive
  /\ t \in sa_cancelling
  /\ sa_rows' = SA_update_task_status(sa_rows, t, "cancelled", NULL)
  /\ sa_cancelling' = sa_cancelling \ {t}
  /\ UNCHANGED notSA
  /\ UNCHANGED <<env, next_id, caller, worker, sa_cancel_events,
                 sa_running_threads, sa_event_set>>

\* lines 362-365
SACancelRejected(t) ==
  /\ SAActive
  /\ t \notin sa_cancel_events
  /\ ~(t \in DOMAIN sa_rows /\ sa_rows[t].status \in NonTerminal)
  /\ UNCHANGED notSA
  /\ UNCHANGED <<env, next_id, caller, worker, saVars>>

SANext ==
  \/ \E c \in Callers, task_type \in {"single", "batch"} : SACreate(c, task_type)
  \/ \E c \in Callers : SARegisterAndSpawn(c)
  \/ \E t \in FreshIds : SASetRunning(t)
  \/ \E t \in FreshIds : SASingleProgress0(t)
  \/ \E t \in FreshIds : SASingleCancelledBefore(t)
  \/ \E t \in FreshIds : SASingleCall(t)
  \/ \E t \in FreshIds : SASingleCancelledAfter(t)
  \/ \E t \in FreshIds, out \in Outcomes, msg \in ErrorTexts :
       SASingleProgress100(t, out, msg)
  \/ \E t \in FreshIds : SASingleExcept(t)
  \/ \E t \in FreshIds : SASaveResult(t)
  \/ \E t \in FreshIds : SASingleSetCompleted(t)
  \/ \E t \in FreshIds : SASingleSetFailed(t)
  \/ \E t \in FreshIds : SABatchExcept(t)
  \/ \E t \in FreshIds : SAPoolCreate(t)
  \/ \E t \in FreshIds, u \in 1..MaxUnits : SAUnitStart(t, u)
  \/ \E t \in FreshIds, u \in 1..MaxUnits, out \in Outcomes : SAUnitFinish(t, u, out)
  \/ \E t \in FreshIds : SABatchCancelled(t)
  \/ \E t \in FreshIds, u \in 1..MaxUnits : SABatchCollect(t, u)
  \/ \E t \in FreshIds : SABatchCollectDone(t)
  \/ \E t \in FreshIds : SAPoolExit(t)
  \/ \E t \in FreshIds : SABatchSetCompleted(t)
  \/ \E t \in FreshIds : SACleanupTask(t)
  \/ \E t \in TaskIds : SACancelSignal(t)
  \/ \E t \in TaskIds : SACancelFallbackRead(t)
  \/ \E t \in TaskIds : SACancelFallbackWrite(t)
  \/ \E t \in TaskIds : SACancelRejected(t)

\* ------------------------------------------------------------ the system
vars == <<env, next_id, caller, worker, selVars, mfVars, saVars, storeVars>>

\* A previous process of the application may have died with a task unfinished:
\* its row (id 0) is still pending or running, and nothing of it is in memory.
SelOrphanRows ==
  {<<>>} \cup
  {[t \in {0} |-> [SelNewRow("low_price_bull") EXCEPT
                     !.status = st, !.started_at = (st = "running")]] :
     st \in NonTerminal}

MFOrphanRows ==
  {<<>>} \cup
  {[t \in {0} |-> [MFNewRow(n) EXCEPT
                     !.status = st, !.started_at = (st = "running")]] :
     st \in NonTerminal, n \in {MaxUnits}}

\* What is fixed in a behaviour: the scheduler, how many starts may draw a task
\* id, and the arguments of the batch starts (n codes, the mode, max_workers);
\* every start of a behaviour is called with the same ones.  A behaviour has
\* several tasks, or one task with a pool of several units: a bounded-parallel
\* batch of more than one unit is the only task of its behaviour.  The tasks
\* of StockAnalysisScheduler are not gated: they run concurrently and share
\* nothing but the table, of which each touches its own row; a behaviour has
\* one single-stock task for every caller, or one batch.
NoArgs ==
  [sched |-> NULL, starts |-> NumTasks, task_type |-> NULL, n |-> 0,
   mode |-> NULL, max_workers |-> 0, utc_offset |-> 0]

Scenarios ==
  {[NoArgs EXCEPT !.sched = "selector"]}
  \cup {[NoArgs EXCEPT !.sched = "main_force", !.n = n, !.mode = "sequential"] :
          n \in 0..MaxUnits}
  \cup {[NoArgs EXCEPT !.sched = "main_force", !.n = n, !.mode = "parallel",
                       !.max_workers = w,
                       !.starts = IF n <= 1 THEN NumTasks ELSE 1] :
          n \in 0..MaxUnits, w \in WorkerChoices}
  \cup {[NoArgs EXCEPT !.sched = "stock_analysis", !.task_type = "single",
                       !.starts = Cardinality(Callers)]}
  \cup {[NoArgs EXCEPT !.sched = "stock_analysis", !.task_type = "batch", !.n = n,
                       !.max_workers = w, !.starts = 1] :
          n \in 0..MaxUnits, w \in WorkerChoices}

Init ==
  /\ env \in Scenarios
  /\ next_id = 1
  /\ caller = [c \in Callers |-> Idle]
  /\ worker = <<>>
  /\ sel_task_locks = <<>>
  /\ sel_held = {}
  /\ sel_cancel_events = {}
  /\ sel_running_threads = {}
  /\ sel_event_set = {}
  /\ sel_rows \in IF env.sched = "selector" THEN SelOrphanRows ELSE {<<>>}
  /\ mf_task_lock = FALSE
  /\ mf_cancel_flag = FALSE
  /\ mf_current_task_id = {}
  /\ mf_rows \in IF env.sched = "main_force" THEN MFOrphanRows ELSE {<<>>}
  /\ mf_history = <<>>
  /\ sa_cancel_events = {}
  /\ sa_running_threads = {}
  /\ sa_event_set = {}
  /\ sa_cancelling = {}
  /\ sa_rows = <<>>
  /\ clock = 0
  /\ store_ret = RetNone
  /\ norm = NoNorm

Next ==
  \/ \E c \in Callers : StartReturned(c)
  \/ SelNext
  \/ MFNext
  \/ SANext

Spec == Init /\ [][Next]_vars

\* --------------------------------------------------------------- fairness
\* The worker of a task is a daemon thread of the interpreter and the units of
\* a batch run on the threads of its pool: a thread that can take a step
\* eventually takes one, and a work function that was called returns.
SelThread(t) ==
  \/ SelSetRunning(t) \/ SelProgress10(t) \/ SelCancelledBefore(t)
  \/ SelProgress30(t) \/ SelCancelledAfter(t)
  \/ \E out \in Outcomes, msg \in ErrorTexts : SelProgress80(t, out, msg)
  \/ \E msg \in ExceptionTexts : SelExcept(t, msg)
  \/ SelSaveResult(t) \/ SelSetCompleted(t) \/ SelProgress100(t)
  \/ SelSetFailed(t) \/ SelCleanupTask(t) \/ SelRelease(t)

MFThread(t) ==
  \/ MFSetRunning(t) \/ MFSeqLeave(t) \/ MFSeqBegin(t)
  \/ \E out \in Outcomes : MFSeqUnit(t, out)
  \/ MFExcept(t) \/ MFPoolCreate(t) \/ MFCollectCancel(t)
  \/ \E u \in 1..MaxUnits : MFCollect(t, u)
  \/ MFCollectDone(t) \/ MFPoolExit(t) \/ MFSaveHistory(t)
  \/ MFSetCompleted(t) \/ MFSetCancelled(t) \/ MFFinallyClear(t) \/ MFRelease(t)

MFPoolThreads(t) ==
  \E u \in 1..MaxUnits :
    MFUnitStart(t, u) \/ \E out \in Outcomes : MFUnitFinish(t, u, out)

SAThread(t) ==
  \/ SASetRunning(t) \/ SASingleProgress0(t) \/ SASingleCancelledBefore(t)
  \/ SASingleCall(t) \/ SASingleCancelledAfter(t)
  \/ \E out \in Outcomes, msg \in ErrorTexts : SASingleProgress100(t, out, msg)
  \/ SASingleExcept(t) \/ SASaveResult(t) \/ SASingleSetCompleted(t)
  \/ SASingleSetFailed(t) \/ SABatchExcept(t) \/ SAPoolCreate(t)
  \/ SABatchCancelled(t)
  \/ \E u \in 1..MaxUnits : SABatchCollect(t, u)
  \/ SABatchCollectDone(t) \/ SAPoolExit(t) \/ SABatchSetCompleted(t)
  \/ SACleanupTask(t)

SAPoolThreads(t) ==
  \E u \in 1..MaxUnits :
    SAUnitStart(t, u) \/ \E out \in Outcomes : SAUnitFinish(t, u, out)

Fairness ==
  \A t \in FreshIds :
    /\ WF_vars(SelThread(t))
    /\ WF_vars(MFThread(t)) /\ WF_vars(MFPoolThreads(t))
    /\ WF_vars(SAThread(t)) /\ WF_vars(SAPoolThreads(t))

LiveSpec == Init /\ [][Next]_vars /\ Fairness

\* ------------------------------------------------------------ store faults
\* A store operation can fail (the database file is locked, the disk is full).
\* The operations that fail in FaultSpec are the creation of the task row and
\* the saving of the results.  SelectorTaskDB and StockAnalysisTaskDB catch the
\* error and return False; MainForceBatchDatabase lets it propagate.

\* a create_task that keeps the lock it should release
SelCreateFailsKeepsLock(c) ==
  /\ SelActive /\ caller[c].pc = "create"
  /\ caller' = [caller EXCEPT ![c] = [Idle EXCEPT !.pc = "create_failed"]]
  /\ UNCHANGED notSel
  /\ UNCHANGED <<env, next_id, worker, selVars>>

\* selector_scheduler.py lines 79-89: create_task returns False: release the
\* lock, return success=False (the entry of _cancel_events stays)
SelCreateFails(c) ==
  /\ SelActive /\ caller[c].pc = "create"
  /\ sel_held' = sel_held \ {caller[c].lock}
  /\ caller' = [caller EXCEPT ![c] = [Idle EXCEPT !.pc = "create_failed"]]
  /\ UNCHANGED notSel
  /\ UNCHANGED <<env, next_id, worker, sel_task_locks, sel_cancel_events,
                 sel_running_threads, sel_event_set, sel_rows>>

\* selector_task_db.py lines 165-185: save_task_result catches the error and
\* returns False, which _run_selection (selector_scheduler.py line 154) does
\* not look at
SelSaveResultFails(t) ==
  /\ SelAt(t, "save")
  /\ UNCHANGED sel_rows
  /\ SelStep(t, "final_status")

\* main_force_batch_scheduler.py lines 73-78, 95-100: create_task raises: the
\* except of start_batch_analysis releases the lock and returns success=False
\* (_current_task_id stays)
MFCreateFails(c) ==
  /\ MFActive /\ caller[c].pc = "mf_create"
  /\ mf_task_lock' = FALSE
  /\ caller' = [caller EXCEPT ![c] = [Idle EXCEPT !.pc = "create_failed"]]
  /\ UNCHANGED notMF
  /\ UNCHANGED <<env, next_id, worker, mf_cancel_flag, mf_current_task_id,
                 mf_rows, mf_history>>

\* main_force_batch_scheduler.py lines 208-216, 235-243: save_batch_analysis
\* raises: the outer except writes failed
MFSaveHistoryFails(t) ==
  /\ MFAt(t, "final_check")
  /\ ~mf_cancel_flag
  /\ mf_rows' = MF_update_task_status(mf_rows, t, "failed",
       [error_message |-> "exception", completed_at |-> TRUE])
  /\ worker' = [worker EXCEPT ![t].pc = "finally"]
  /\ UNCHANGED mf_history
  /\ MFFrame

\* stock_analysis_scheduler.py lines 41-71 and 115-146: create_task returns
\* False: return success=False
SACreateFails(c, task_type) ==
  /\ SAActive /\ caller[c].pc = "idle" /\ IdAvailable
  /\ task_type = env.task_type
  /\ next_id' = next_id + 1
  /\ caller' = [caller EXCEPT ![c] = [Idle EXCEPT !.pc = "create_failed"]]
  /\ UNCHANGED notSA
  /\ UNCHANGED <<env, worker, saVars>>

\* stock_analysis_scheduler.py lines 211 and 310: save_task_result returns
\* False, which the worker does not look at
SASaveResultFails(t) ==
  /\ SAAt(t, "save")
  /\ UNCHANGED sa_rows
  /\ SAStep(t, "final_status")

StoreFault ==
  \/ \E c \in Callers : SelCreateFails(c)
  \/ \E t \in FreshIds : SelSaveResultFails(t)
  \/ \E c \in Callers : MFCreateFails(c)
  \/ \E t \in FreshIds : MFSaveHistoryFails(t)
  \/ \E c \in Callers, task_type \in {"single", "batch"} : SACreateFails(c, task_type)
  \/ \E t \in FreshIds : SASaveResultFails(t)

FaultNext == Next \/ StoreFault

FaultSpec == Init /\ [][FaultNext]_vars

\* --------------------------------------------------- the stores, directly
\* The operations of the three task stores are public methods; StoreSpec is a
\* client that calls them in any order on one of the stores, on a host whose
\* local time is utc_offset time units ahead of UTC.
TimeUnitsPerDay == 3
MaxClock == 4
UtcOffsets == {-1, 0, 1}
\* the `days` cleanup_old_tasks is called with
DaysChoices == {-1, 0, 1}
Statuses == NonTerminal \cup Terminal

StoreOf(db) == env.sched = db

\* datetime('now', '-{days} days'): UTC; '--1 days' is no modifier of SQLite,
\* the value is NULL and no row compares less than it (NoCutoff)
NoCutoff == -100
SA_cutoff(days) == IF days < 0 THEN NoCutoff ELSE clock - days * TimeUnitsPerDay

\* DELETE FROM analysis_tasks WHERE task_id = ?
SA_delete_task(rows, tid) == [t \in DOMAIN rows \ {tid} |-> rows[t]]

\* DELETE FROM analysis_tasks WHERE status IN ('completed', 'failed',
\* 'cancelled') AND datetime(created_at) < datetime('now', '-{days} days')
SA_cleanup_old_tasks(rows, days) ==
  [t \in {u \in DOMAIN rows : ~(/\ rows[u].status \in Terminal
                                /\ rows[u].created_at < SA_cutoff(days))}
     |-> rows[t]]

StoreFrame == UNCHANGED <<env, next_id, caller, worker, clock, norm>>

StoreTick ==
  /\ env.sched \in {"selector_store", "main_force_store", "stock_analysis_store"}
  /\ clock < MaxClock
  /\ clock' = clock + 1
  /\ UNCHANGED <<env, next_id, caller, worker, selVars, mfVars, saVars, store_ret, norm>>

\* SelectorTaskDB.create_task of a new task_id
SelStoreCreate(t) ==
  /\ StoreOf("selector_store") /\ t \notin DOMAIN sel_rows
  /\ sel_rows' = Sel_create_task(sel_rows, t, "low_price_bull")
  /\ store_ret' = RetTrue
  /\ UNCHANGED <<sel_task_locks, sel_held, sel_cancel_events, sel_running_threads,
                 sel_event_set, mfVars, saVars>>
  /\ StoreFrame

\* SelectorTaskDB.update_task_status
SelStoreUpdateStatus(t, status, err) ==
  /\ StoreOf("selector_store")
  /\ sel_rows' = Sel_update_task_status(sel_rows, t, status, err)
  /\ store_ret' = RetTrue
  /\ UNCHANGED <<sel_task_locks, sel_held, sel_cancel_events, sel_running_threads,
                 sel_event_set, mfVars, saVars>>
  /\ StoreFrame

\* MainForceBatchDatabase.create_task of a new task_id
MFStoreCreate(t) ==
  /\ StoreOf("main_force_store") /\ t \notin DOMAIN mf_rows
  /\ mf_rows' = MF_create_task(mf_rows, t, 1)
  /\ store_ret' = RetNone
  /\ UNCHANGED <<mf_task_lock, mf_cancel_flag, mf_current_task_id, mf_history,
                 selVars, saVars>>
  /\ StoreFrame

\* MainForceBatchDatabase.update_task_status
MFStoreUpdateStatus(t, status, given) ==
  /\ StoreOf("main_force_store")
  /\ mf_rows' = MF_update_task_status(mf_rows, t, status, given)
  /\ store_ret' = RetNone
  /\ UNCHANGED <<mf_task_lock, mf_cancel_flag, mf_current_task_id, mf_history,
                 selVars, saVars>>
  /\ StoreFrame

SAStoreFrame ==
  /\ UNCHANGED <<sa_cancel_events, sa_running_threads, sa_event_set, sa_cancelling,
                 selVars, mfVars>>
  /\ StoreFrame

\* StockAnalysisTaskDB.create_task of a new task_id
SAStoreCreate(t) ==
  /\ StoreOf("stock_analysis_store") /\ t \notin DOMAIN sa_rows
  /\ sa_rows' = SA_create_task(sa_rows, t, "single", 1)
  /\ store_ret' = RetTrue
  /\ SAStoreFrame

\* StockAnalysisTaskDB.update_task_status
SAStoreUpdateStatus(t, status, err) ==
  /\ StoreOf("stock_analysis_store")
  /\ sa_rows' = SA_update_task_status(sa_rows, t, status, err)
  /\ store_ret' = RetTrue
  /\ SAStoreFrame

\* StockAnalysisTaskDB.delete_task: returns True, also when no row had the id
SAStoreDeleteTask(t) ==
  /\ StoreOf("stock_analysis_store")
  /\ sa_rows' = SA_delete_task(sa_rows, t)
  /\ store_ret' = RetTrue
  /\ SAStoreFrame

\* StockAnalysisTaskDB.cleanup_old_tasks: returns cursor.rowcount
SAStoreCleanup(days) ==
  /\ StoreOf("stock_analysis_store")
  /\ sa_rows' = SA_cleanup_old_tasks(sa_rows, days)
  /\ store_ret' = Cardinality(DOMAIN sa_rows) - Cardinality(DOMAIN sa_rows')
  /\ SAStoreFrame

StoreScenarios ==
  {[NoArgs EXCEPT !.sched = db, !.utc_offset = o] :
     db \in {"selector_store", "main_force_store", "stock_analysis_store"},
     o \in UtcOffsets}

\* no task, no thread, empty tables
NothingYet ==
  /\ next_id = 1
  /\ caller = [c \in Callers |-> Idle]
  /\ worker = <<>>
  /\ sel_task_locks = <<>>
  /\ sel_held = {}
  /\ sel_cancel_events = {}
  /\ sel_running_threads = {}
  /\ sel_event_set = {}
  /\ sel_rows = <<>>
  /\ mf_task_lock = FALSE
  /\ mf_cancel_flag = FALSE
  /\ mf_current_task_id = {}
  /\ mf_rows = <<>>
  /\ mf_history = <<>>
  /\ sa_cancel_events = {}
  /\ sa_running_threads = {}
  /\ sa_event_set = {}
  /\ sa_cancelling = {}
  /\ sa_rows = <<>>
  /\ clock = 0
  /\ store_ret = RetNone

StoreInit ==
  /\ env \in StoreScenarios
  /\ norm = NoNorm
  /\ NothingYet

StoreNext ==
  \/ StoreTick
  \/ \E t \in FreshIds : SelStoreCreate(t)
  \/ \E t \in FreshIds, status \in Statuses, err \in {NULL} \cup ErrorTexts :
       SelStoreUpdateStatus(t, status, err)
  \/ \E t \in FreshIds : MFStoreCreate(t)
  \/ \E t \in FreshIds, status \in Statuses,
        given \in {<<>>, [error_message |-> "error"], [started_at |-> TRUE],
                   [completed_at |-> TRUE]} :
       MFStoreUpdateStatus(t, status, given)
  \/ \E t \in FreshIds : SAStoreCreate(t)
  \/ \E t \in FreshIds, status \in Statuses : SAStoreUpdateStatus(t, status, NULL)
  \/ \E t \in FreshIds : SAStoreDeleteTask(t)
  \/ \E days \in DaysChoices : SAStoreCleanup(days)

StoreSpec == StoreInit /\ [][StoreNext]_vars

\* ------------------------------------------------------- the normalizers
\* save_task_result and save_batch_analysis pass the results through a
\* normalizer before json.dumps.  A value is None, a scalar, a DataFrame (its
\* rows in order, each the mapping of its columns), a dict or a list.
RowLimit == 100
\* rows of a table far beyond the limit
BigTable == 500

PyNone == [kind |-> "none"]
Scalar(v) == [kind |-> "scalar", v |-> v]
DataFrame(n) == [kind |-> "frame", rows |-> [i \in 1..n |-> [code |-> i]]]
PyDict(items) == [kind |-> "dict", items |-> items]
PyList(items) == [kind |-> "list", items |-> items]

\* a DataFrame.head that keeps the last k rows
FrameHeadKeepsLast(rows, k) ==
  IF Len(rows) <= k THEN rows ELSE SubSeq(rows, Len(rows) - k + 1, Len(rows))

\* DataFrame.head(k): the first k rows
FrameHead(rows, k) == IF Len(rows) <= k THEN rows ELSE SubSeq(rows, 1, k)

\* DataFrame.to_dict('records'): the list of the rows' mappings
ToDictRecords(rows) == PyList([i \in 1..Len(rows) |-> PyDict(rows[i])])

\* the DataFrame branch of the three normalizers
CleanFrame(obj) ==
  IF Len(obj.rows) > RowLimit
  THEN ToDictRecords(FrameHead(obj.rows, RowLimit))
  ELSE ToDictRecords(obj.rows)

\* SelectorTaskDB._clean_for_json and StockAnalysisTaskDB._clean_for_json
RECURSIVE Clean_for_json(_)
Clean_for_json(obj) ==
  CASE obj.kind = "none" -> PyNone
    [] obj.kind = "scalar" -> obj
    [] obj.kind = "frame" -> CleanFrame(obj)
    [] obj.kind = "dict" ->
         PyDict([k \in DOMAIN obj.items |-> Clean_for_json(obj.items[k])])
    [] obj.kind = "list" ->
         PyList([i \in 1..Len(obj.items) |-> Clean_for_json(obj.items[i])])

\* MainForceBatchDatabase._clean_results_for_json.clean_value
RECURSIVE MF_clean_value(_)
MF_clean_value(value) ==
  CASE value.kind = "none" -> PyNone
    [] value.kind = "frame" -> CleanFrame(value)
    [] value.kind = "dict" ->
         PyDict([k \in DOMAIN value.items |-> MF_clean_value(value.items[k])])
    [] value.kind = "list" ->
         PyList([i \in 1..Len(value.items) |-> MF_clean_value(value.items[i])])
    [] value.kind = "scalar" -> value

\* MainForceBatchDatabase._clean_results_for_json: results is a list of dicts
MF_clean_results_for_json(results) ==
  PyList([i \in 1..Len(results.items) |->
            PyDict([key \in DOMAIN results.items[i].items |->
                      MF_clean_value(results.items[i].items[key])])])

RowCounts == 0..MaxRows \cup {BigTable}

\* what a work function returns: a table, or a result dict that holds one
Payloads ==
  {DataFrame(n) : n \in RowCounts}
  \cup {PyDict([success |-> Scalar(TRUE), data |-> DataFrame(n)]) : n \in RowCounts}

\* the results of a batch: one result dict for each stock code
MFPayloads ==
  {PyList(<<PyDict([symbol |-> Scalar(1), success |-> Scalar(TRUE),
                    data |-> DataFrame(n)])>>) : n \in RowCounts}

NormFrame == UNCHANGED <<env, next_id, caller, worker, selVars, mfVars, saVars,
                         clock, store_ret>>

\* SelectorTaskDB.save_task_result: cleaned_results = self._clean_for_json(results)
SelClean ==
  /\ norm.by = "selector" /\ ~norm.done
  /\ norm' = [norm EXCEPT !.out = Clean_for_json(norm.obj), !.done = TRUE]
  /\ NormFrame

\* StockAnalysisTaskDB.save_task_result
SAClean ==
  /\ norm.by = "stock_analysis" /\ ~norm.done
  /\ norm' = [norm EXCEPT !.out = Clean_for_json(norm.obj), !.done = TRUE]
  /\ NormFrame

\* save_batch_analysis: cleaned_results = self._clean_results_for_json(results)
MFClean ==
  /\ norm.by = "main_force" /\ ~norm.done
  /\ norm' = [norm EXCEPT !.out = MF_clean_results_for_json(norm.obj), !.done = TRUE]
  /\ NormFrame

NormInit ==
  /\ env = [NoArgs EXCEPT !.sched = "normalizer"]
  /\ \E by \in {"selector", "stock_analysis", "main_force"} :
       \E obj \in IF by = "main_force" THEN MFPayloads ELSE Payloads :
         norm = [by |-> by, obj |-> obj, out |-> PyNone, done |-> FALSE]
  /\ NothingYet

NormNext == SelClean \/ SAClean \/ MFClean

NormSpec == NormInit /\ [][NormNext]_vars

\* ------------------------------------------------------ two selector types
\* The pages of the application start selections of two types,
\* 'low_price_bull' and 'small_cap', on the one SelectorScheduler.  TypesSpec
\* is the selector scenario of Spec in which a start may be of either type.
OtherSelTypes == {"small_cap"}

TypesInit == Init /\ SelActive

TypesNext ==
  \/ \E c \in Callers : StartReturned(c)
  \/ SelNext
  \/ \E c \in Callers, ty \in OtherSelTypes : SelGetLockCheck(c, ty)

TypesSpec == TypesInit /\ [][TypesNext]_vars

\* ------------------------------------------------------------ properties
SelLive == \A ty \in SelTypes : Cardinality(Sel_get_running_tasks(sel_rows, ty)) <= 1
MFLive == Cardinality(MF_get_running_task(mf_rows)) <= 1

\* C1: single-flight for the gated schedulers: in no reachable state do two
\* tasks of one category (a selector type of SelectorScheduler, the one
\* category of MainForceBatchScheduler) both have stored status pending or
\* running.
C1_SingleFlightGated == SelLive /\ MFLive

SALive(task_type) ==
  {t \in DOMAIN sa_rows : /\ sa_rows[t].status \in NonTerminal
                          /\ sa_rows[t].task_type = task_type}

\* C2: single-flight for StockAnalysisScheduler: a start issued while a task
\* of the same task_type is pending or running is rejected, so in no reachable
\* state do two tasks of one task_type both have status pending or running.
C2_SingleFlightStockAnalysis ==
  \A task_type \in {"single", "batch"} : Cardinality(SALive(task_type)) <= 1

\* a start call of c is at its acquire and the lock it would take is held
SelBusyFor(c) == SelActive /\ caller[c].pc = "acquire" /\ SelGetLock(c) \in sel_held
MFBusyFor(c) == MFActive /\ caller[c].pc = "idle" /\ mf_task_lock

\* the step of c from such a state: it returns success=False and no task_id, and
\* nothing but the caller's own position changes
BusyStepFrame(c) ==
  (caller'[c] # caller[c] /\ (SelBusyFor(c) \/ MFBusyFor(c)))
    => /\ caller'[c].pc = "busy" /\ caller'[c].task_id = 0
       /\ \A d \in Callers \ {c} : caller'[d] = caller[d]
       /\ UNCHANGED <<next_id, worker, selVars, mfVars>>

\* C3: a start call for a category whose lock is held returns success=False
\* with no task_id without waiting (its rejecting step is enabled as long as the
\* lock is held) and changes nothing else: no row is created, the cancel-event
\* and thread registries and the rows of the store stay as they are.
C3_BusyRejected ==
  /\ [][\A c \in Callers : BusyStepFrame(c)]_vars
  /\ [](\A c \in Callers :
          /\ SelBusyFor(c) => ENABLED SelStartBusy(c)
          /\ (MFBusyFor(c) /\ IdAvailable) => ENABLED MFStartBusy(c))

\* a start has been rejected as busy while the worker of task 1 is in its work
\* function, and task 1 is the only row
C3_Witness ==
  /\ SelActive
  /\ \E c \in Callers : caller[c].pc = "busy"
  /\ 1 \in DOMAIN worker /\ worker[1].pc = "call"
  /\ DOMAIN sel_rows = {1} /\ sel_rows[1].status = "running"

\* a start call of c holds the lock and finds an unfinished row of its category
SelStoreBusyFor(c) ==
  /\ SelActive /\ caller[c].pc = "check_store"
  /\ Sel_get_running_tasks(sel_rows, caller[c].ty) # {}
MFStoreBusyFor(c) ==
  MFActive /\ caller[c].pc = "mf_check_store" /\ MF_get_running_task(mf_rows) # {}

\* the step of c from such a state
StoreBusyStepFrame(c) ==
  (caller'[c] # caller[c] /\ (SelStoreBusyFor(c) \/ MFStoreBusyFor(c)))
    => /\ caller'[c].pc = "store_busy" /\ caller'[c].task_id = 0
       /\ SelActive => (caller[c].lock \in sel_held /\ caller[c].lock \notin sel_held')
       /\ MFActive => (mf_task_lock /\ ~mf_task_lock')
       /\ UNCHANGED <<next_id, worker, sel_rows, mf_rows, mf_history,
                      sel_cancel_events, sel_running_threads, sel_event_set,
                      mf_current_task_id, mf_cancel_flag>>

\* C4: store re-check at admission: a start that took the free lock and finds
\* a pending or running row of its category in the store (for instance the row
\* of a previous process) is rejected, creates no row and releases the lock it
\* took; with the lock taken and no such row the start goes on to create its
\* task.
C4_StoreRecheck ==
  /\ [][\A c \in Callers : StoreBusyStepFrame(c)]_vars
  /\ [](\A c \in Callers :
          /\ (SelActive /\ caller[c].pc = "check_store" /\ ~SelStoreBusyFor(c))
               => ENABLED SelNewTask(c)
          /\ (MFActive /\ caller[c].pc = "mf_check_store" /\ ~MFStoreBusyFor(c))
               => ENABLED MFNewTask(c))

\* a start was rejected for the row of the previous process; that row was then
\* cancelled and the start of another caller was accepted
C4_Witness ==
  /\ SelActive
  /\ \E c \in Callers : caller[c].pc = "store_busy"
  /\ DOMAIN sel_rows = {0, 1}
  /\ sel_rows[0].status = "cancelled" /\ sel_rows[1].status = "pending"

AllDone == \A t \in DOMAIN worker : worker[t].pc = "done"
\* no worker is alive and no caller but c is inside a start call
QuietBut(c) == AllDone /\ \A d \in Callers \ {c} : ~InStart(d)

\* the last step of the worker of t releases the lock the worker was given
WorkerEndReleases(t) ==
  (t \in DOMAIN worker /\ worker[t].pc # "done" /\ worker'[t].pc = "done")
    => /\ SelActive => (worker[t].lock \in sel_held /\ worker[t].lock \notin sel_held')
       /\ MFActive => (mf_task_lock /\ ~mf_task_lock')

\* what is true of a worker that has ended
WorkerEnded(t) ==
  worker[t].pc = "done"
    => /\ SelActive => /\ t \notin sel_cancel_events /\ t \notin sel_running_threads
                       /\ sel_rows[t].status \in Terminal
       /\ MFActive => (mf_current_task_id # {t} /\ mf_rows[t].status \in Terminal)

\* a start call made when every worker has ended is not rejected by the lock,
\* and not by the store check unless for the row of a previous process
AcceptedWhenQuiet(c) ==
  QuietBut(c)
    => /\ (SelActive /\ caller[c].pc = "acquire") => SelGetLock(c) \notin sel_held
       /\ (SelActive /\ caller[c].pc = "check_store")
            => Sel_get_running_tasks(sel_rows, caller[c].ty) \subseteq {0}
       /\ (MFActive /\ caller[c].pc = "idle") => ~mf_task_lock
       /\ (MFActive /\ caller[c].pc = "mf_check_store")
            => MF_get_running_task(mf_rows) \subseteq {0}

\* C5: on every path through a worker of SelectorScheduler and of
\* MainForceBatchScheduler (completed, failure reported, cancelled at a check,
\* exception caught) the worker ends by releasing the lock, with its task's
\* cancellation handle dropped (the cancel event of the task, the current task
\* id) and the status terminal; a start made after the workers have ended is
\* accepted.
C5_WorkerAlwaysReleases ==
  /\ [][\A t \in FreshIds : WorkerEndReleases(t)]_vars
  /\ [](\A t \in DOMAIN worker : (SelActive \/ MFActive) => WorkerEnded(t))
  /\ [](\A c \in Callers : AcceptedWhenQuiet(c))

\* the worker of task 1 ended on the exception path, and the lock it released
\* was taken again by the start of task 2
C5_Witness ==
  /\ SelActive
  /\ DOMAIN worker = {1, 2}
  /\ worker[1].pc = "done" /\ sel_rows[1].error_message = "exception"
  /\ worker[2].lock = worker[1].lock /\ worker[2].pc = "set_running"
  /\ sel_held = {worker[2].lock}

\* C6: the category lock is held for the whole life of a task: in every
\* reachable state in which a task created by this process has stored status
\* pending or running, the lock of its category (what _task_locks holds for
\* its type; _task_lock) is held: it is taken before the row is created and
\* released only after the terminal status is written.
C6_LockHeldWhileLive ==
  /\ \A t \in FreshIds \cap DOMAIN sel_rows :
       sel_rows[t].status \in NonTerminal
         => /\ sel_rows[t].selector_type \in DOMAIN sel_task_locks
            /\ sel_task_locks[sel_rows[t].selector_type] \in sel_held
  /\ \A t \in FreshIds \cap DOMAIN mf_rows :
       mf_rows[t].status \in NonTerminal => mf_task_lock

\* the status of row t of a table does not leave a terminal value in a step
StatusFinal(rows, rows2) ==
  \A t \in DOMAIN rows :
    rows[t].status \in Terminal => rows2[t].status = rows[t].status

\* C7: terminal states are final: once the stored status of a task is
\* completed, failed or cancelled it never changes again, in the three
\* schedulers, whatever the interleaving of worker steps and cancel_task
\* calls (a cancel_task between the creation of the row and the first step of
\* the worker included).
C7_TerminalIsFinal ==
  [][/\ StatusFinal(sel_rows, sel_rows')
     /\ StatusFinal(mf_rows, mf_rows')
     /\ StatusFinal(sa_rows, sa_rows')]_vars

\* C8: after the status of a task has become completed, failed or cancelled
\* no progress update is applied to it: progress_percent, current_step /
\* current_stock / current_symbol and completed_count keep the values they
\* had when the terminal status was written.
C8_NoProgressAfterTerminal ==
  [][/\ \A t \in DOMAIN sel_rows :
          sel_rows[t].status \in Terminal
            => /\ sel_rows'[t].progress_percent = sel_rows[t].progress_percent
               /\ sel_rows'[t].current_step = sel_rows[t].current_step
     /\ \A t \in DOMAIN mf_rows :
          mf_rows[t].status \in Terminal
            => /\ mf_rows'[t].progress_percent = mf_rows[t].progress_percent
               /\ mf_rows'[t].current_stock = mf_rows[t].current_stock
               /\ mf_rows'[t].completed_count = mf_rows[t].completed_count
     /\ \A t \in DOMAIN sa_rows :
          sa_rows[t].status \in Terminal
            => /\ sa_rows'[t].progress_percent = sa_rows[t].progress_percent
               /\ sa_rows'[t].current_symbol = sa_rows[t].current_symbol
               /\ sa_rows'[t].completed_count = sa_rows[t].completed_count]_vars

\* the counts of the rows of a table do not decrease in a step
CountsGrow(rows, rows2) ==
  \A t \in DOMAIN rows :
    /\ rows2[t].completed_count >= rows[t].completed_count
    /\ rows2[t].progress_percent >= rows[t].progress_percent

\* the count of a finished row
CountsAtEnd(rows) ==
  \A t \in DOMAIN rows :
    /\ rows[t].status = "completed" => rows[t].completed_count = rows[t].total_count
    /\ rows[t].status = "cancelled" => rows[t].completed_count <= rows[t].total_count

\* C9: progress is monotonic: the stored completed_count and the stored
\* progress_percent of a task never decrease from one state to the next; a
\* task with status completed has completed_count = total_count, a cancelled
\* one has completed_count <= total_count.
C9_ProgressMonotonic ==
  /\ [][/\ CountsGrow(mf_rows, mf_rows')
        /\ CountsGrow(sa_rows, sa_rows')
        /\ \A t \in DOMAIN sel_rows :
             sel_rows'[t].progress_percent >= sel_rows[t].progress_percent]_vars
  /\ [](CountsAtEnd(mf_rows) /\ CountsAtEnd(sa_rows))

\* a sequential batch of MaxUnits codes has completed, all of them counted
C9_Witness ==
  /\ MFActive /\ env.mode = "sequential" /\ env.n = MaxUnits
  /\ 1 \in DOMAIN mf_rows /\ mf_rows[1].status = "completed"
  /\ mf_rows[1].completed_count = MaxUnits /\ mf_rows[1].progress_percent = 100

\* C10: in every reachable state every task row has
\* 0 <= completed_count <= total_count, success_count + failed_count <=
\* completed_count (the rows of MainForceBatchScheduler, which have these
\* counts) and 0 <= progress_percent <= 100.
C10_CountInvariants ==
  /\ \A t \in DOMAIN mf_rows :
       /\ 0 <= mf_rows[t].completed_count
       /\ mf_rows[t].completed_count <= mf_rows[t].total_count
       /\ mf_rows[t].success_count + mf_rows[t].failed_count
            <= mf_rows[t].completed_count
       /\ 0 <= mf_rows[t].progress_percent /\ mf_rows[t].progress_percent <= 100
  /\ \A t \in DOMAIN sa_rows :
       /\ 0 <= sa_rows[t].completed_count
       /\ sa_rows[t].completed_count <= sa_rows[t].total_count
       /\ 0 <= sa_rows[t].progress_percent /\ sa_rows[t].progress_percent <= 100
  /\ \A t \in DOMAIN sel_rows :
       0 <= sel_rows[t].progress_percent /\ sel_rows[t].progress_percent <= 100

\* a bounded-parallel batch is under way: one unit collected and counted as a
\* success, another still to collect
C10_Witness ==
  /\ MFActive /\ env.mode = "parallel" /\ env.n = MaxUnits
  /\ 1 \in DOMAIN mf_rows /\ mf_rows[1].status = "running"
  /\ mf_rows[1].completed_count = 1 /\ mf_rows[1].success_count = 1
  /\ mf_rows[1].failed_count = 0

\* a unit's outcome is counted as what it was: a success adds one to
\* success_count, a failure reported or raised adds one to failed_count
UnitCounted(rows, rows2, t, out) ==
  /\ rows2[t].completed_count = rows[t].completed_count + 1
  /\ rows2[t].success_count = rows[t].success_count + (IF out = "ok" THEN 1 ELSE 0)
  /\ rows2[t].failed_count = rows[t].failed_count + (IF out = "ok" THEN 0 ELSE 1)

\* the stored counts of a completed batch_task_status row and of its history
\* record are those of the N outcomes
MFCompletedCounts(t) ==
  LET row == mf_rows[t]
      h == mf_history[row.history_record_id]
      K == NumFailed(h.results)
  IN /\ row.history_record_id \in DOMAIN mf_history
     /\ Len(h.results) = row.total_count
     /\ row.failed_count = K /\ row.success_count = row.total_count - K
     /\ h.failed_count = K /\ h.success_count = row.total_count - K

\* a completed batch row of analysis_tasks holds the N outcomes, and its
\* error_message tells whether any of them failed
SACompletedCounts(t) ==
  /\ sa_rows[t].results # {}
  /\ \A rs \in sa_rows[t].results :
       /\ Len(rs) = sa_rows[t].total_count
       /\ (sa_rows[t].error_message = NULL) <=> (NumFailed(rs) = 0)

\* C11: partial-failure tolerance: a batch of N units that was not cancelled
\* ends completed whatever the number K of units that failed (success=False
\* returned, or an exception), never failed; each unit is counted as what it
\* was, and the completed task has failed_count = K and success_count = N - K,
\* in sequential and in bounded-parallel mode.
C11_PartialFailureTolerance ==
  /\ [][\A t \in FreshIds, out \in Outcomes :
          /\ MFSeqUnit(t, out) => UnitCounted(mf_rows, mf_rows', t, out)
          /\ \A u \in 1..MaxUnits :
               /\ MFUnitFinish(t, u, out)
                    => (worker'[t].units[u] = "ok") <=> (out = "ok")
               /\ SAUnitFinish(t, u, out)
                    => (worker'[t].units[u] = "ok") <=> (out = "ok")
               /\ MFCollect(t, u)
                    => UnitCounted(mf_rows, mf_rows', t,
                                   IF worker[t].units[u] = "ok" THEN "ok" ELSE "fail")]_vars
  /\ [][\A t \in FreshIds :
          /\ (MFAt(t, "final_check") /\ ~mf_cancel_flag /\ worker'[t] # worker[t])
               => worker'[t].pc = "set_completed"
          /\ (MFAt(t, "set_completed") /\ worker'[t] # worker[t])
               => mf_rows'[t].status = "completed"
          /\ (SAAt(t, "final_status") /\ worker[t].ty = "batch" /\ worker'[t] # worker[t])
               => sa_rows'[t].status = "completed"]_vars
  /\ [](\A t \in FreshIds \cap DOMAIN mf_rows :
          mf_rows[t].status = "completed" => MFCompletedCounts(t))
  /\ [](\A t \in FreshIds \cap DOMAIN sa_rows :
          (sa_rows[t].status = "completed" /\ sa_rows[t].task_type = "batch")
            => SACompletedCounts(t))

\* a bounded-parallel batch of MaxUnits codes has completed with exactly one
\* failed unit
C11_Witness ==
  /\ MFActive /\ env.mode = "parallel" /\ env.n = MaxUnits
  /\ 1 \in DOMAIN mf_rows /\ mf_rows[1].status = "completed"
  /\ mf_rows[1].failed_count = 1 /\ mf_rows[1].success_count = MaxUnits - 1

\* sequential mode, the cancel flag is set and the worker of t is before the
\* check of its next unit (or past the loop, before the final check)
SeqCancelledAt(t) ==
  /\ MFActive /\ env.mode = "sequential" /\ mf_cancel_flag
  /\ t \in DOMAIN worker /\ worker[t].pc \in {"set_running", "loop", "final_check"}

\* C12: sequential cancellation: with cancel_task accepted after unit k and
\* before the check of unit k+1, the flag stays set, the worker starts no
\* further unit (its next steps leave the loop and write cancelled), and the
\* stored completed_count stays k, the number of outcomes collected.
C12_SequentialCancel ==
  /\ [](\A t \in FreshIds :
          SeqCancelledAt(t)
            => /\ mf_rows[t].completed_count = worker[t].i
               /\ Len(worker[t].results) = worker[t].i)
  /\ [][\A t \in FreshIds :
          SeqCancelledAt(t)
            => /\ mf_cancel_flag'
               /\ mf_rows'[t].completed_count = mf_rows[t].completed_count
               /\ worker'[t].i = worker[t].i
               /\ worker'[t].pc \in {"set_running", "loop", "final_check", "finally"}
               /\ worker'[t].pc = "finally" => mf_rows'[t].status = "cancelled"]_vars

\* a sequential batch of MaxUnits codes was cancelled after its first unit:
\* the row is cancelled with completed_count 1
C12_Witness ==
  /\ MFActive /\ env.mode = "sequential" /\ env.n = MaxUnits
  /\ 1 \in DOMAIN mf_rows /\ mf_rows[1].status = "cancelled"
  /\ mf_rows[1].completed_count = 1 /\ mf_rows[1].total_count = MaxUnits
  /\ mf_history = <<>>

\* C13: partial results survive cancellation: a batch cancelled after k >= 1
\* units has the outcomes of those k units in the store: a history record of
\* k outcomes for a batch_task_status row, a results list of k outcomes for an
\* analysis_tasks row.
C13_PartialResultsSurvive ==
  /\ \A t \in FreshIds \cap DOMAIN mf_rows :
       (mf_rows[t].status = "cancelled" /\ mf_rows[t].completed_count > 0)
         => /\ mf_rows[t].history_record_id \in DOMAIN mf_history
            /\ Len(mf_history[mf_rows[t].history_record_id].results)
                 = mf_rows[t].completed_count
  /\ \A t \in FreshIds \cap DOMAIN sa_rows :
       (/\ sa_rows[t].task_type = "batch" /\ sa_rows[t].status = "cancelled"
        /\ sa_rows[t].completed_count > 0)
         => /\ sa_rows[t].results # {}
            /\ \A rs \in sa_rows[t].results : Len(rs) = sa_rows[t].completed_count

\* the cancellation signal of task t is set and the worker of t, if it was
\* started already, has not made its first cancellation check
SelPreStartCancelled(t) ==
  /\ SelActive /\ t \in sel_event_set
  /\ t \in DOMAIN worker => worker[t].pc \in {"set_running", "progress_10", "check_1"}
SAPreStartCancelled(t) ==
  /\ SAActive /\ env.task_type = "single" /\ t \in sa_event_set
  /\ t \in DOMAIN worker => worker[t].pc \in {"set_running", "progress_0", "check_1"}
\* (task 1 is the first to be current: a flag that is set while it is current
\* was set by a cancel_task accepted for it)
MFPreStartCancelled(t) ==
  /\ MFActive /\ env.mode = "sequential" /\ t = 1
  /\ mf_cancel_flag /\ mf_current_task_id = {t}
  /\ t \in DOMAIN worker
       => worker[t].pc = "set_running" \/ (worker[t].pc = "loop" /\ worker[t].i = 0)

SelPreStartStep(t) ==
  SelPreStartCancelled(t)
    => \/ SelPreStartCancelled(t)'
       \/ /\ t \in DOMAIN sel_rows
          /\ sel_rows[t].status = "running" /\ sel_rows'[t].status = "cancelled"
SAPreStartStep(t) ==
  SAPreStartCancelled(t)
    => \/ SAPreStartCancelled(t)'
       \/ t \in DOMAIN sa_rows /\ sa_rows'[t].status = "cancelled"
MFPreStartStep(t) ==
  MFPreStartCancelled(t)
    => \/ MFPreStartCancelled(t)'
       \/ /\ t \in DOMAIN worker' /\ worker'[t].pc = "final_check"
          /\ mf_cancel_flag' /\ worker'[t].results = <<>>

\* C14: pre-start cancellation: once the cancellation signal of a task is set
\* before the worker's first check, it stays set until that check, the work
\* function is not called for the task, and the worker's next write of the
\* status after running is cancelled (SelectorScheduler, the single-stock
\* analysis, MainForceBatchScheduler in sequential mode).
C14_PreStartCancel ==
  [][\A t \in FreshIds :
       SelPreStartStep(t) /\ SAPreStartStep(t) /\ MFPreStartStep(t)]_vars

\* a step in which a cancellation signal becomes set
SignalRaised ==
  \/ sel_event_set' \ sel_event_set # {}
  \/ sa_event_set' \ sa_event_set # {}
  \/ ~mf_cancel_flag /\ mf_cancel_flag'

\* the units of the pool of t that are executing
PoolRunning(t) ==
  IF t \in DOMAIN worker /\ "units" \in DOMAIN worker[t]
  THEN {u \in DOMAIN worker[t].units : worker[t].units[u] = "running"} ELSE {}

\* the worker of t is inside the work function with its signal set: what its
\* step out of the call does
SelCallCancelled(t) ==
  (SelAt(t, "call") /\ t \in sel_event_set /\ worker'[t] # worker[t])
    => /\ worker'[t].pc = "cleanup"
       /\ sel_rows'[t].results = sel_rows[t].results
       /\ \/ sel_rows'[t].status = "cancelled"
          \/ \E msg \in ExceptionTexts : SelExcept(t, msg)
SACallCancelled(t) ==
  (SAAt(t, "call") /\ t \in sa_event_set /\ worker'[t] # worker[t])
    => /\ worker'[t].pc = "cleanup"
       /\ sa_rows'[t].results = sa_rows[t].results
       /\ sa_rows'[t].status = "cancelled" \/ SASingleExcept(t)

\* C15: cooperative cancellation: a step that sets a cancellation signal
\* changes no worker and no unit; a unit that is executing can still run to
\* its return; in SelectorScheduler and the single-stock analysis a worker
\* whose signal was set while its work function ran writes cancelled when the
\* function has returned and never writes the function's result, so a
\* cancelled selector row has no results.
C15_CooperativeCancel ==
  /\ [][SignalRaised => worker' = worker]_vars
  /\ [][\A t \in FreshIds : SelCallCancelled(t) /\ SACallCancelled(t)]_vars
  /\ [](\A t \in FreshIds : \A u \in PoolRunning(t) :
          /\ MFActive => ENABLED MFUnitFinish(t, u, "ok")
          /\ SAActive => ENABLED SAUnitFinish(t, u, "ok"))
  /\ [](\A t \in DOMAIN sel_rows :
          sel_rows[t].status = "cancelled" => sel_rows[t].results = NULL)

\* a selection was cancelled while its function ran: the row went on to
\* progress 30, is cancelled and has no results, the worker has ended
C15_Witness ==
  /\ SelActive /\ 1 \in DOMAIN worker /\ worker[1].pc = "done"
  /\ sel_rows[1].status = "cancelled" /\ sel_rows[1].progress_percent = 30
  /\ sel_rows[1].results = NULL

\* cancel_task(t) would take its store fallback: no event is registered for t
\* and the stored status of t is pending or running
SelFallbackFor(t) ==
  /\ SelActive /\ t \notin sel_cancel_events
  /\ t \in DOMAIN sel_rows /\ sel_rows[t].status \in NonTerminal
SAFallbackFor(t) ==
  /\ SAActive /\ t \notin sa_cancel_events
  /\ t \in DOMAIN sa_rows /\ sa_rows[t].status \in NonTerminal

\* the row t of a table after the fallback: only status and completed_at differ
FallbackWritten(rows, rows2, t) ==
  rows2 = [rows EXCEPT ![t].status = "cancelled", ![t].completed_at = TRUE]

\* C16: cancel fallback: cancel_task for a task with no registered
\* cancellation signal and stored status pending or running is not rejected:
\* it writes status cancelled and completed_at to the row and changes nothing
\* else, neither another column or row nor the registries, events, locks and
\* workers.
C16_CancelFallback ==
  /\ [](\A t \in TaskIds :
          /\ SelFallbackFor(t) => ENABLED SelCancelFallback(t) /\ ~ENABLED SelCancelRejected(t)
          /\ (SAFallbackFor(t) /\ sa_cancelling = {})
               => ENABLED SACancelFallbackRead(t) /\ ~ENABLED SACancelRejected(t)
          /\ t \in sa_cancelling => ENABLED SACancelFallbackWrite(t))
  /\ [][\A t \in TaskIds :
          /\ (SelFallbackFor(t) /\ sel_rows'[t] # sel_rows[t])
               => /\ FallbackWritten(sel_rows, sel_rows', t)
                  /\ UNCHANGED <<caller, worker, next_id, sel_task_locks, sel_held,
                                 sel_cancel_events, sel_running_threads, sel_event_set>>
          /\ (t \in sa_cancelling /\ t \notin sa_cancelling')
               => /\ FallbackWritten(sa_rows, sa_rows', t)
                  /\ UNCHANGED <<caller, worker, next_id, sa_cancel_events,
                                 sa_running_threads, sa_event_set>>]_vars

\* a stock analysis task was cancelled through the store between the creation
\* of its row and the registration of its event: the row is cancelled, was
\* never started, and no worker exists yet
C16_Witness ==
  /\ SAActive /\ 1 \in DOMAIN sa_rows /\ sa_rows[1].status = "cancelled"
  /\ sa_rows[1].completed_at /\ ~sa_rows[1].started_at
  /\ sa_cancelling = {} /\ 1 \notin sa_cancel_events /\ worker = <<>>

\* C17: task-level fault handling: when the work function (SelectorScheduler)
\* or an engine step outside the per-unit boundary (MainForceBatchScheduler:
\* the creation of the pool) raises e, the worker catches it: the task is
\* written failed with error_message = str(e), the worker goes on to its
\* finally block, and its last step releases the lock.
C17_TaskLevelFault ==
  /\ [][\A t \in FreshIds :
          /\ \A msg \in ExceptionTexts :
               SelExcept(t, msg)
                 => /\ sel_rows'[t].status = "failed"
                    /\ sel_rows'[t].error_message = msg
                    /\ worker'[t].pc = "cleanup"
          /\ MFExcept(t)
               => /\ mf_rows'[t].status = "failed"
                  /\ mf_rows'[t].error_message = "exception"
                  /\ worker'[t].pc = "finally"]_vars
  /\ [][\A t \in FreshIds : WorkerEndReleases(t)]_vars

\* C18: a store write that fails during a run makes the task failed with an
\* error_message, and no task is reported as completed without its results
\* having been persisted: every completed row of selector_tasks and of
\* analysis_tasks holds its results, and every completed row of
\* batch_analysis_tasks names a saved history record.
C18_StoreWriteFailure ==
  /\ \A t \in DOMAIN sel_rows :
       sel_rows[t].status = "completed" => sel_rows[t].results # NULL
  /\ \A t \in DOMAIN sa_rows :
       sa_rows[t].status = "completed" => sa_rows[t].results # {}
  /\ \A t \in DOMAIN mf_rows :
       mf_rows[t].status = "completed"
         => mf_rows[t].history_record_id \in 1..Len(mf_history)

\* the step records the outcome of unit u of batch t as a failure of that unit
\* alone: one more result with success False, the status stays as it was
RecordedAsFailed(t, u) ==
  /\ worker'[t].results = Append(worker[t].results, [symbol |-> u, success |-> FALSE])
  /\ worker'[t].i = worker[t].i + 1

\* the exception of a unit in a pool thread ends that unit and nothing else
PoolUnitContained(t, u) ==
  /\ worker'[t].units[u] = "fail"
  /\ \A v \in DOMAIN worker[t].units \ {u} : worker'[t].units[v] = worker[t].units[v]
  /\ worker'[t].pc = worker[t].pc
  /\ worker'[t].results = worker[t].results

\* the units still to be done after a failed one can be done: the next code of
\* a sequential batch, a queued unit of a pool with a free thread
RemainingUnitsGoOn(t) ==
  /\ (/\ MFAt(t, "loop") /\ worker[t].i < env.n /\ ~mf_cancel_flag
      /\ NumFailed(worker[t].results) > 0)
       => ENABLED MFSeqBegin(t)
  /\ \A u \in 1..MaxUnits :
       /\ (/\ MFPoolLive(t) /\ u \in DOMAIN worker[t].units
           /\ worker[t].units[u] = "queued" /\ MFRunning(t) = {})
            => ENABLED MFUnitStart(t, u)
       /\ (/\ SAPoolLive(t) /\ u \in DOMAIN worker[t].units
           /\ worker[t].units[u] = "queued" /\ SARunning(t) = {})
            => ENABLED SAUnitStart(t, u)

\* C19: per-unit fault containment: an exception raised by the work function
\* for one unit of a batch becomes that unit's outcome with success False and
\* is counted as a failed unit; it leaves the task's status and the other units
\* as they were, the remaining units can still be processed, and no task with
\* a recorded unit outcome is failed.
C19_UnitFaultContained ==
  /\ [][\A t \in FreshIds :
          /\ MFSeqUnit(t, "raise")
               => /\ RecordedAsFailed(t, worker[t].i + 1)
                  /\ mf_rows'[t].failed_count = mf_rows[t].failed_count + 1
                  /\ mf_rows'[t].status = mf_rows[t].status
                  /\ worker'[t].pc = "loop"
          /\ \A u \in 1..MaxUnits :
               /\ MFUnitFinish(t, u, "raise")
                    => PoolUnitContained(t, u) /\ UNCHANGED mf_rows
               /\ SAUnitFinish(t, u, "raise")
                    => PoolUnitContained(t, u) /\ UNCHANGED sa_rows
               /\ (MFCollect(t, u) /\ worker[t].units[u] = "fail")
                    => /\ RecordedAsFailed(t, u)
                       /\ mf_rows'[t].failed_count = mf_rows[t].failed_count + 1
                       /\ mf_rows'[t].status = mf_rows[t].status
                       /\ worker'[t].pc = "collect"
               /\ (SABatchCollect(t, u) /\ worker[t].units[u] = "fail")
                    => /\ RecordedAsFailed(t, u)
                       /\ sa_rows'[t].completed_count = sa_rows[t].completed_count + 1
                       /\ sa_rows'[t].status = sa_rows[t].status
                       /\ worker'[t].pc = "collect"]_vars
  /\ [](\A t \in FreshIds \cap DOMAIN worker : RemainingUnitsGoOn(t))
  /\ [](\A t \in FreshIds \cap DOMAIN mf_rows :
          mf_rows[t].status = "failed" => mf_rows[t].completed_count = 0)
  /\ [](\A t \in FreshIds \cap DOMAIN sa_rows :
          (sa_rows[t].status = "failed" /\ sa_rows[t].task_type = "batch")
            => sa_rows[t].completed_count = 0)

\* a sequential batch of MaxUnits codes has completed with every code analysed,
\* the first with success False (what a raised exception becomes), the last
\* with success True
C19_Witness ==
  /\ MFActive /\ env.mode = "sequential" /\ env.n = MaxUnits
  /\ 1 \in DOMAIN mf_rows /\ mf_rows[1].status = "completed"
  /\ mf_rows[1].completed_count = MaxUnits
  /\ mf_rows[1].history_record_id \in DOMAIN mf_history
  /\ ~mf_history[mf_rows[1].history_record_id].results[1].success
  /\ mf_history[mf_rows[1].history_record_id].results[MaxUnits].success

\* the step by which the start call of c returns because create_task failed
CreateFailedStep(c) == caller[c].pc # "create_failed" /\ caller'[c].pc = "create_failed"

\* the task id the failing start call of c had drawn
FailedTaskId(c) == IF SAActive THEN next_id ELSE caller[c].task_id

\* C20: when the creation of the task row fails at the storage layer, the start
\* call returns to its caller at once with success=False and no task_id; the
\* tables hold no row for the task, no worker is spawned and no thread is
\* registered, and the category lock taken by the call is released, so that a
\* start made when nothing runs is accepted.
C20_CreateFailure ==
  /\ [][\A c \in Callers :
          CreateFailedStep(c)
            => /\ caller'[c].task_id = 0
               /\ UNCHANGED <<sel_rows, mf_rows, sa_rows, worker,
                              sel_running_threads, sa_running_threads>>
               /\ FailedTaskId(c) \notin
                    DOMAIN sel_rows' \cup DOMAIN mf_rows' \cup DOMAIN sa_rows'
                      \cup DOMAIN worker'
               /\ SelActive => (caller[c].lock \in sel_held
                                /\ caller[c].lock \notin sel_held')
               /\ MFActive => (mf_task_lock /\ ~mf_task_lock')]_vars
  /\ [](\A c \in Callers : AcceptedWhenQuiet(c))

\* the create_task of the first start of a selection failed, and the second
\* start, made after it, was accepted: task 2 runs with the lock, task 1 has no
\* row and no worker
C20_Witness ==
  /\ SelActive
  /\ DOMAIN worker = {2} /\ DOMAIN sel_rows = {2}
  /\ worker[2].pc = "set_running"
  /\ sel_held = {worker[2].lock}

\* a results column that holds a value keeps its row and that value
ResultsKept(rows, rows2, null) ==
  \A t \in DOMAIN rows :
    rows[t].results # null => (t \in DOMAIN rows2 /\ rows2[t].results = rows[t].results)

SelInCall(t) == SelAt(t, "call")
MFInCall(t) == MFAt(t, "unit") \/ (MFPoolLive(t) /\ MFRunning(t) # {})

\* while the call of t has not returned the row of t is pending or running and
\* the lock its worker was given is held
HungHolds(t) ==
  /\ SelInCall(t) => (sel_rows[t].status \in NonTerminal /\ worker[t].lock \in sel_held)
  /\ MFInCall(t) => (mf_rows[t].status \in NonTerminal /\ mf_task_lock)

\* nothing but the return of the call moves the worker of t on: a step that
\* leaves its call in progress (a cancel_task that is accepted, a start, a step
\* of another thread) leaves its row's status as it was
HungStays(t) ==
  /\ (SelInCall(t) /\ SelInCall(t)') => sel_rows'[t].status = sel_rows[t].status
  /\ (MFInCall(t) /\ MFInCall(t)') => mf_rows'[t].status = mf_rows[t].status

\* the start call of c is accepted in this step: its worker is spawned
StartAccepted(c) == caller'[c] # caller[c] /\ DOMAIN worker' # DOMAIN worker

\* C22: while a work function call of a task has not returned, the task stays
\* pending or running and its category lock stays held, also after a cancel
\* call for it was accepted, and no start for the category is accepted.
C22_HungWorkFunction ==
  /\ [](\A t \in FreshIds : HungHolds(t))
  /\ [][\A t \in FreshIds : HungStays(t)]_vars
  /\ [][\A t \in FreshIds, c \in Callers :
          StartAccepted(c)
            => /\ ~(SelInCall(t) /\ worker[t].ty = caller[c].ty)
               /\ ~MFInCall(t)]_vars

\* the task of type ty that holds lock L: a start call past its acquire, or a
\* worker that has not released
HoldsFor(L, ty) ==
  \/ \E d \in Callers : caller[d].lock = L /\ caller[d].ty = ty
  \/ \E t \in DOMAIN worker :
       worker[t].pc # "done" /\ worker[t].lock = L /\ worker[t].ty = ty

\* nothing of type ty but the start call of c: no other start call, no live
\* worker, no pending or running row
NothingElseOf(c, ty) ==
  /\ \A d \in Callers \ {c} : ~(InStart(d) /\ caller[d].ty = ty)
  /\ \A t \in DOMAIN worker : worker[t].ty = ty => worker[t].pc = "done"
  /\ Sel_get_running_tasks(sel_rows, ty) = {}

\* the start call of c is rejected in this step only for its own type: by a
\* lock that a task of that type holds, by a pending or running row of that type
RejectedForOwnType(c) ==
  /\ (caller[c].pc = "acquire" /\ caller'[c].pc = "busy")
       => HoldsFor(SelGetLock(c), caller[c].ty)
  /\ (caller[c].pc = "check_store" /\ caller'[c].pc = "store_busy")
       => \E t \in DOMAIN sel_rows : /\ sel_rows[t].selector_type = caller[c].ty
                                     /\ sel_rows[t].status \in NonTerminal

\* whatever the tasks of the other types do, a start of a type of which nothing
\* else lives finds the lock free and the store check empty
NotRejectedByOthers(c) ==
  NothingElseOf(c, caller[c].ty)
    => /\ caller[c].pc = "acquire" => SelGetLock(c) \notin sel_held
       /\ caller[c].pc = "check_store"
            => Sel_get_running_tasks(sel_rows, caller[c].ty) = {}

\* the next step of the worker of t (a work function call returns `out`)
SelWorkerStep(t) ==
  \/ SelSetRunning(t) \/ SelProgress10(t) \/ SelCancelledBefore(t)
  \/ SelProgress30(t) \/ SelCancelledAfter(t)
  \/ \E out \in Outcomes, msg \in ErrorTexts : SelProgress80(t, out, msg)
  \/ \E msg \in ExceptionTexts : SelExcept(t, msg)
  \/ SelSaveResult(t) \/ SelSetCompleted(t) \/ SelProgress100(t)
  \/ SelSetFailed(t) \/ SelCleanupTask(t) \/ SelRelease(t)

\* C23: the categories of SelectorScheduler are independent: a start of type B
\* is rejected only by the lock or by a pending or running row of type B, never
\* because of a task of another type A, and a worker never waits for a lock:
\* its next step can always be taken.
C23_CategoriesIndependent ==
  /\ [][\A c \in Callers : RejectedForOwnType(c)]_vars
  /\ [](\A c \in Callers : NotRejectedByOthers(c))
  /\ [](\A t \in DOMAIN worker : worker[t].pc # "done" => ENABLED SelWorkerStep(t))

\* the worker of task 1 is inside its work function, holding the lock of its
\* type, and a start of the other type was accepted: task 2 is pending with a
\* worker and the lock of its own type
C23_Witness ==
  /\ DOMAIN worker = {1, 2}
  /\ worker[1].ty # worker[2].ty
  /\ worker[1].pc = "call" /\ sel_rows[1].status = "running"
  /\ worker[2].pc = "set_running" /\ sel_rows[2].status = "pending"
  /\ worker[1].lock \in sel_held /\ worker[2].lock \in sel_held

\* the instant, UTC, at which the row of t was created
CreatedUtc(t) == sa_rows[t].created_at - env.utc_offset

\* the rows cleanup_old_tasks(days) is to delete: terminal, and created more
\* than `days` days before now
OldTerminal(days) ==
  {t \in DOMAIN sa_rows : /\ sa_rows[t].status \in Terminal
                          /\ CreatedUtc(t) < clock - days * TimeUnitsPerDay}

\* C24: cleanup_old_tasks(days) deletes exactly the rows whose status is
\* completed, failed or cancelled and that were created before the cutoff (now
\* minus `days` days), returns the number of rows it deleted, leaves the other
\* rows as they were, and never deletes a pending or running row whatever its
\* age.
C24_RetentionCleanup ==
  [][\A days \in DaysChoices :
       SAStoreCleanup(days)
         => /\ store_ret' = Cardinality(DOMAIN sa_rows \ DOMAIN sa_rows')
            /\ DOMAIN sa_rows' \subseteq DOMAIN sa_rows
            /\ \A t \in DOMAIN sa_rows' : sa_rows'[t] = sa_rows[t]
            /\ \A t \in DOMAIN sa_rows :
                 sa_rows[t].status \in NonTerminal => t \in DOMAIN sa_rows'
            /\ days >= 0 => DOMAIN sa_rows \ DOMAIN sa_rows' = OldTerminal(days)]_vars

\* the table of the value handed to the normalizer, and what stands in its
\* place in the normalized value
TableIn ==
  CASE norm.by = "main_force" -> norm.obj.items[1].items.data
    [] norm.obj.kind = "frame" -> norm.obj
    [] norm.obj.kind = "dict" -> norm.obj.items.data
TableOut ==
  CASE norm.by = "main_force" -> norm.out.items[1].items.data
    [] norm.obj.kind = "frame" -> norm.out
    [] norm.obj.kind = "dict" -> norm.out.items.data

MinOf(a, b) == IF a <= b THEN a ELSE b

\* C25: the normalizers turn a table of n rows into a list of exactly
\* min(n, 100) row mappings, which are the first rows of the table in their
\* order: 500 rows become the first 100.
C25_NormalizerRowBound ==
  norm.done
    => /\ TableOut.kind = "list"
       /\ Len(TableOut.items) = MinOf(Len(TableIn.rows), 100)
       /\ \A i \in 1..Len(TableOut.items) :
            TableOut.items[i] = [kind |-> "dict", items |-> TableIn.rows[i]]

\* a result dict with a table of BigTable rows was normalized by
\* SelectorTaskDB: RowLimit rows are left, the last of them the row of that
\* number in the table
C25_Witness ==
  /\ norm.done /\ norm.by = "selector" /\ norm.obj.kind = "dict"
  /\ Len(TableIn.rows) = BigTable
  /\ Len(TableOut.items) = RowLimit
  /\ TableOut.items[RowLimit].items = TableIn.rows[RowLimit]

\* update_task_status(t, status) is called on a row whose status is terminal,
\* with another terminal status
TerminalOverwrite(rows, t, status) ==
  /\ t \in DOMAIN rows /\ rows[t].status \in Terminal
  /\ status \in Terminal /\ status # rows[t].status

\* C26: the stores guard the terminal statuses: update_task_status called on a
\* row whose status is completed, failed or cancelled, with a different
\* terminal status, leaves the stored status as it was (in selector_tasks,
\* batch_task_status and analysis_tasks).
C26_StoreTerminalGuard ==
  [][\A t \in FreshIds, status \in Terminal :
       /\ (TerminalOverwrite(sel_rows, t, status)
             /\ \E err \in {NULL} \cup ErrorTexts : SelStoreUpdateStatus(t, status, err))
            => sel_rows'[t].status = sel_rows[t].status
       /\ (TerminalOverwrite(mf_rows, t, status) /\ MFStoreUpdateStatus(t, status, <<>>))
            => mf_rows'[t].status = mf_rows[t].status
       /\ (TerminalOverwrite(sa_rows, t, status) /\ SAStoreUpdateStatus(t, status, NULL))
            => sa_rows'[t].status = sa_rows[t].status]_vars

\* the results field of a row is set
SelHasResults(t) == sel_rows[t].results # NULL
SAHasResults(t) == sa_rows[t].results # {}

\* C27: results appear only with a terminal status: in every state a poller
\* can read, a selection or analysis row whose results field is set has the
\* status completed, failed or cancelled; a pending or running row has none
C27_ResultsOnlyTerminal ==
  /\ \A t \in DOMAIN sel_rows : SelHasResults(t) => sel_rows[t].status \in Terminal
  /\ \A t \in DOMAIN sa_rows : SAHasResults(t) => sa_rows[t].status \in Terminal

\* the timestamps of a row agree with its status
StampsFollow(r) ==
  /\ r.status = "pending" => ~r.started_at /\ ~r.completed_at
  /\ r.status = "running" => r.started_at /\ ~r.completed_at
  /\ r.status \in Terminal => r.completed_at

\* C28: the timestamps follow the state machine: a pending row has neither
\* started_at nor completed_at, a running row has started_at and no
\* completed_at, and a row with a terminal status has completed_at
C28_TimestampsFollowStatus ==
  /\ \A t \in DOMAIN sel_rows : StampsFollow(sel_rows[t])
  /\ \A t \in DOMAIN mf_rows : StampsFollow(mf_rows[t])
  /\ \A t \in DOMAIN sa_rows : StampsFollow(sa_rows[t])

\* the error_message of a row is set
HasError(r) == r.error_message # NULL

\* a completed row of which at least one unit failed
SelPartialFailure(t) == FALSE
MFPartialFailure(t) == mf_rows[t].status = "completed" /\ mf_rows[t].failed_count > 0
SAPartialFailure(t) ==
  /\ sa_rows[t].status = "completed"
  /\ \E rs \in sa_rows[t].results : NumFailed(rs) > 0

\* error_message is set only on a failed row or on a completed row with a
\* failed unit
ErrorOnlyOnFailure ==
  /\ \A t \in DOMAIN sel_rows :
       HasError(sel_rows[t]) => sel_rows[t].status = "failed" \/ SelPartialFailure(t)
  /\ \A t \in DOMAIN mf_rows :
       HasError(mf_rows[t]) => mf_rows[t].status = "failed" \/ MFPartialFailure(t)
  /\ \A t \in DOMAIN sa_rows :
       HasError(sa_rows[t]) => sa_rows[t].status = "failed" \/ SAPartialFailure(t)

\* every failed row has an error_message
FailedHasError ==
  /\ \A t \in DOMAIN sel_rows : sel_rows[t].status = "failed" => HasError(sel_rows[t])
  /\ \A t \in DOMAIN mf_rows : mf_rows[t].status = "failed" => HasError(mf_rows[t])
  /\ \A t \in DOMAIN sa_rows : sa_rows[t].status = "failed" => HasError(sa_rows[t])

\* C29: the discipline of error_message: a row has error_message set only if
\* its status is failed, or completed with at least one failed unit (so
\* pending, running and cancelled rows and completed rows without a failed
\* unit have none), and every failed row has one
C29_ErrorMessageDiscipline == ErrorOnlyOnFailure /\ FailedHasError

\* the rows of a table that a step removes
Removed(rows, rows2) == DOMAIN rows \ DOMAIN rows2

\* C30: no deletion outside retention: a store operation removes a task row
\* only if it is cleanup_old_tasks and the row has a terminal status; a
\* pending or running row never disappears from its table
C30_NoDeletionOutsideRetention ==
  [][/\ Removed(sel_rows, sel_rows') = {}
     /\ Removed(mf_rows, mf_rows') = {}
     /\ \A t \in Removed(sa_rows, sa_rows') :
          /\ sa_rows[t].status \in Terminal
          /\ \E days \in DaysChoices : SAStoreCleanup(days)]_vars

\* the worker of t saw the cancellation signal while collecting and is leaving
\* the pool: a unit it did not collect is left (after an exhausted
\* as_completed every unit was collected)
MFCancelObserved(t) ==
  MFAt(t, "pool_exit") /\ \E u \in DOMAIN worker[t].units : worker[t].units[u] # "yielded"
SACancelObserved(t) ==
  SAAt(t, "pool_exit") /\ \E u \in DOMAIN worker[t].units : worker[t].units[u] # "yielded"

\* no unit starts once the worker saw the signal
NoUnitStartsAfterCancel ==
  [][\A t \in FreshIds, u \in 1..MaxUnits :
       /\ MFCancelObserved(t) => ~MFUnitStart(t, u)
       /\ SACancelObserved(t) => ~SAUnitStart(t, u)]_vars

\* a unit that is executing is not preempted: it stays running until it ends
\* with its outcome, and the pool is left only when none is running
RunningUnitsFinish ==
  [][\A t \in DOMAIN worker :
       (MFPoolLive(t) \/ SAPoolLive(t)) =>
         \A u \in DOMAIN worker[t].units :
           worker[t].units[u] = "running" =>
             /\ u \in DOMAIN worker'[t].units
             /\ worker'[t].units[u] \in {"running", "ok", "fail"}]_vars

\* the progress columns of a row
MFProgressOf(r) ==
  <<r.completed_count, r.success_count, r.failed_count, r.progress_percent>>
SAProgressOf(r) == <<r.completed_count, r.progress_percent, r.current_symbol>>

\* from the step that sees the signal on, no outcome is appended and no
\* progress is written
NothingRecordedAfterCancel ==
  [][\A t \in FreshIds :
       /\ (MFCollectCancel(t) \/ MFCancelObserved(t)) =>
            /\ MFProgressOf(mf_rows'[t]) = MFProgressOf(mf_rows[t])
            /\ worker'[t].results = worker[t].results
       /\ (SABatchCancelled(t) \/ SACancelObserved(t)) =>
            /\ SAProgressOf(sa_rows'[t]) = SAProgressOf(sa_rows[t])
            /\ worker'[t].results \in {worker[t].results, <<>>}]_vars

\* the task ends cancelled: the main-force flag stays set up to the final
\* check, which writes cancelled; the analysis worker writes cancelled when it
\* sees the event and the status stays
FinalizedCancelled ==
  [][\A t \in FreshIds :
       /\ (MFCollectCancel(t) \/ MFCancelObserved(t)) => mf_cancel_flag'
       /\ (MFAt(t, "final_check") /\ mf_cancel_flag) =>
            \/ MFAt(t, "final_check")' /\ mf_cancel_flag'
            \/ mf_rows'[t].status = "cancelled"
       /\ (SABatchCancelled(t) \/ SACancelObserved(t)) =>
            sa_rows'[t].status = "cancelled"]_vars

\* C31: cancellation in bounded-parallel mode: when the worker sees the
\* cancellation signal while collecting finished units, the units that have
\* not started never execute, the units that are executing finish, no further
\* outcome or progress is recorded, and the task is finalized as cancelled
C31_ParallelCancellation ==
  /\ NoUnitStartsAfterCancel
  /\ RunningUnitsFinish
  /\ NothingRecordedAfterCancel
  /\ FinalizedCancelled

\* the task t has no row in the table, or its row has a terminal status
NoLiveRow(rows, t) == t \notin DOMAIN rows \/ rows[t].status \in Terminal

\* a step of cancel_task(t) of each scheduler, whatever it answers
SelCancelStep(t) == SelCancelSignal(t) \/ SelCancelFallback(t) \/ SelCancelRejected(t)
SACancelStep(t) ==
  SACancelSignal(t) \/ SACancelFallbackRead(t) \/ SACancelFallbackWrite(t)
    \/ SACancelRejected(t)
MFCancelStep(arg) == MFCancelMismatch(arg) \/ MFCancelNoTask(arg) \/ MFCancelAccept(arg)

\* the cases in which MainForceBatchScheduler.cancel_task is to be rejected:
\* the task named is not the current one, none is running, or the task
\* cancelled has no row or a terminal one
MFNotCancellable(arg) ==
  \/ arg # {} /\ mf_current_task_id # arg
  \/ mf_current_task_id = {}
  \/ \E t \in arg : NoLiveRow(mf_rows, t)
  \/ arg = {} /\ \E t \in mf_current_task_id : NoLiveRow(mf_rows, t)

\* the store rows and the cancellation signals are left as they are
SelCancelLeftAlone == UNCHANGED <<sel_rows, sel_event_set>>
SACancelLeftAlone == UNCHANGED <<sa_rows, sa_event_set>>
MFCancelLeftAlone == UNCHANGED <<mf_rows, mf_cancel_flag>>

\* C32: a rejected cancel changes nothing: cancel_task for a task that does
\* not exist or is already terminal, or (MainForceBatchScheduler) is not the
\* current task or is asked when no task runs, is answered success=false and
\* leaves the store rows and every cancellation signal unchanged
C32_RejectedCancelChangesNothing ==
  [][/\ \A t \in TaskIds :
          /\ (NoLiveRow(sel_rows, t) /\ SelCancelStep(t)) => SelCancelLeftAlone
          /\ (NoLiveRow(sa_rows, t) /\ SACancelStep(t)) => SACancelLeftAlone
     /\ \A arg \in CancelArgs :
          (MFNotCancellable(arg) /\ MFCancelStep(arg)) => MFCancelLeftAlone]_vars

\* the output of a completed task is in the store: the results column of a
\* selection or analysis row, the history record a batch row names
SelOutputStored(t) == SelHasResults(t)
SAOutputStored(t) == SAHasResults(t)
MFOutputStored(t) == mf_rows[t].history_record_id \in DOMAIN mf_history

\* C33: a poller never sees completion before the output: when no store write
\* fails, every row with status completed already has its results stored
\* (selector_tasks, analysis_tasks) or names a saved history record
\* (batch_task_status)
C33_NoCompletionBeforeOutput ==
  /\ \A t \in DOMAIN sel_rows : sel_rows[t].status = "completed" => SelOutputStored(t)
  /\ \A t \in DOMAIN sa_rows : sa_rows[t].status = "completed" => SAOutputStored(t)
  /\ \A t \in DOMAIN mf_rows : mf_rows[t].status = "completed" => MFOutputStored(t)

\* the worker of a selection has just written completed (its next step is the
\* progress update of line 160) and the results are in the row
C33_Witness ==
  \E t \in FreshIds :
    /\ SelAt(t, "progress_100")
    /\ sel_rows[t].status = "completed" /\ SelOutputStored(t)

\* the Lock objects of selector type ty that are held
HeldLocksOf(ty) == {l \in sel_held : l[1] = ty}

\* every Lock that is held is the one _task_locks has for its type
HeldIsRegistered ==
  \A l \in sel_held : l[1] \in DOMAIN sel_task_locks /\ sel_task_locks[l[1]] = l

\* C34: _get_lock is race-free: under every interleaving of concurrent starts
\* of one selector type, the first calls for a type without a lock included,
\* all callers get the same Lock object (the one registered for the type), so
\* at most one of them holds a lock of the type
C34_GetLockRaceFree ==
  /\ HeldIsRegistered
  /\ \A ty \in SelTypes : Cardinality(HeldLocksOf(ty)) <= 1

\* cancel_task(arg) is accepted and sets the flag
MFCancelSets(arg) == MFCancelAccept(arg) /\ ~mf_cancel_flag /\ mf_cancel_flag'

\* the flag is set only for the current task, which is the one the call names
\* if it names one
CancelNamesCurrent ==
  [][\A arg \in CancelArgs :
       MFCancelSets(arg) => mf_current_task_id # {} /\ (arg = {} \/ arg = mf_current_task_id)]_vars

\* a row becomes cancelled only while its task is the current one and the flag
\* is set
CancelledByOwnFlag ==
  [][\A t \in DOMAIN mf_rows :
       (mf_rows[t].status # "cancelled" /\ mf_rows'[t].status = "cancelled")
         => mf_cancel_flag /\ mf_current_task_id = {t}]_vars

\* the flag left by a cancel of an earlier task is cleared before the worker
\* of the next task exists
StaleFlagCleared ==
  [][\A c \in Callers :
       MFClearFlag(c) => caller[c].task_id \notin DOMAIN worker /\ ~mf_cancel_flag']_vars

\* a start has set _current_task_id and has not yet cleared the flag
MFStartAboutToClear == \E c \in Callers : MFActive /\ caller[c].pc = "mf_clear_flag"

\* no cancel is accepted for a task whose start is still to clear the flag
NoLostCancel ==
  [][\A arg \in CancelArgs : MFCancelSets(arg) => ~MFStartAboutToClear]_vars

\* C35: a cancel request only cancels the task it names: the shared flag of
\* MainForceBatchScheduler is set only for the current task, a task ends
\* cancelled only by a cancel accepted while it was the current one (never by
\* the flag an earlier task left), and an accepted cancel is never lost by the
\* flag being cleared at start
C35_CancelOnlyNamedTask ==
  /\ CancelNamesCurrent
  /\ CancelledByOwnFlag
  /\ StaleFlagCleared
  /\ NoLostCancel

\* no thread is inside the body of start_batch_analysis (between the acquire
\* of line 51 and one of its returns)
MFOutsideStart ==
  \A c \in Callers : caller[c].pc \notin {"mf_check_store", "mf_clear_flag", "mf_create"}

\* is_running(): self._current_task_id is not None
MF_is_running == mf_current_task_id # {}

\* a worker thread that has not ended holds the task lock
MFWorkerHoldsLock ==
  mf_task_lock /\ \E t \in DOMAIN worker : worker[t].pc # "done"

\* C36: is_running() agrees with the lock: in every state outside the body of
\* start_batch_analysis, is_running() is true if and only if a worker holds
\* the task lock; so after a start that returned success=false with no task
\* running, is_running() is false and cancel_task() is rejected
C36_IsRunningAgreesWithLock ==
  (MFActive /\ MFOutsideStart) => (MF_is_running <=> MFWorkerHoldsLock)

\* a start call is creating the task t (its event is registered, its row and
\* worker are about to be)
SelStarting(t) ==
  \E c \in Callers : caller[c].pc = "create" /\ caller[c].task_id = t

\* the worker thread of t exists and has not ended
WorkerNotEnded(t) == t \in DOMAIN worker /\ worker[t].pc # "done"

\* C37: the in-memory registries track only live tasks: every task id in
\* _cancel_events or _running_threads of SelectorScheduler and of
\* StockAnalysisScheduler is that of a task being accepted or accepted whose
\* worker has not ended; after a rejected start or the end of a worker no
\* entry of the task is left
C37_RegistriesTrackLiveTasks ==
  /\ SelActive =>
       \A t \in sel_cancel_events \cup sel_running_threads :
         SelStarting(t) \/ WorkerNotEnded(t)
  /\ SAActive =>
       \A t \in sa_cancel_events \cup sa_running_threads : WorkerNotEnded(t)

\* the task t was accepted: its start spawned the worker
Accepted(t) == t \in DOMAIN worker

\* the stored status of the accepted task t is terminal
ReachedTerminal(t) ==
  \/ SelActive /\ t \in DOMAIN sel_rows /\ sel_rows[t].status \in Terminal
  \/ MFActive /\ t \in DOMAIN mf_rows /\ mf_rows[t].status \in Terminal
  \/ SAActive /\ t \in DOMAIN sa_rows /\ sa_rows[t].status \in Terminal

\* the worker of t has taken its last step, which for SelectorScheduler and
\* MainForceBatchScheduler is the release of the category lock
WorkerFinished(t) == t \in DOMAIN worker /\ worker[t].pc = "done"

\* C38: every accepted task finishes: if every work function call returns and
\* the threads are scheduled fairly, each accepted task reaches completed,
\* failed or cancelled, and then its worker releases the category lock, in
\* sequential and in bounded-parallel mode, cancelled or not
C38_AcceptedTaskFinishes ==
  \A t \in FreshIds :
    /\ Accepted(t) ~> ReachedTerminal(t)
    /\ (Accepted(t) /\ ReachedTerminal(t)) ~> WorkerFinished(t)

\* a batch of the main-force scheduler in bounded-parallel mode was cancelled
\* and its worker has released the lock
C38_Witness ==
  \E t \in FreshIds :
    /\ MFActive /\ env.max_workers > 0 /\ WorkerFinished(t)
    /\ mf_rows[t].status = "cancelled" /\ ~mf_task_lock

\* the parties that own the Lock object l of SelectorScheduler: the start
\* calls that acquired it and have not handed it on, the workers that were
\* given it and have not ended
SelLockOwners(l) ==
  {<<"start", c>> : c \in {c \in Callers : caller[c].lock = l}}
    \cup {<<"worker", t>> : t \in {t \in DOMAIN worker : worker[t].pc # "done" /\ worker[t].lock = l}}

\* the parties that own the one lock of MainForceBatchScheduler
MFLockOwners ==
  {<<"start", c>> : c \in {c \in Callers :
       caller[c].pc \in {"mf_check_store", "mf_clear_flag", "mf_create"}}}
    \cup {<<"worker", t>> : t \in {t \in DOMAIN worker : worker[t].pc # "done"}}

\* a lock is held exactly while one party owns it
HeldByOneOwner ==
  /\ SelActive =>
       /\ \A l \in sel_held : Cardinality(SelLockOwners(l)) = 1
       /\ \A c \in Callers : caller[c].lock # NoLock => caller[c].lock \in sel_held
       /\ \A t \in DOMAIN worker : worker[t].pc # "done" => worker[t].lock \in sel_held
  /\ MFActive =>
       /\ mf_task_lock => Cardinality(MFLockOwners) = 1
       /\ ~mf_task_lock => MFLockOwners = {}

\* the step is a return of the start call c that spawned no worker
StartGivesUp(c) ==
  /\ caller'[c].pc \in {"store_busy", "create_failed"}
  /\ worker' = worker

\* a release is the last step of the worker that owns the lock, or a start
\* that owns it returning without a worker
ReleasedByOwner ==
  [][/\ SelActive =>
          \A l \in sel_held \ sel_held' :
            \/ \E t \in FreshIds : SelRelease(t) /\ worker[t].lock = l
                                     /\ worker'[t].pc = "done"
            \/ \E c \in Callers : caller[c].lock = l /\ StartGivesUp(c)
     /\ (MFActive /\ mf_task_lock /\ ~mf_task_lock') =>
          \/ \E t \in FreshIds : MFRelease(t) /\ worker'[t].pc = "done"
          \/ \E c \in Callers : <<"start", c>> \in MFLockOwners /\ StartGivesUp(c)]_vars

\* C39: each acquire of a category lock is matched by one release, made by
\* the party that owns the lock: a start releases it only when it spawned no
\* worker, a worker only in its last step, and a lock is never released while
\* it is not held or while it is held for another task
C39_AcquireMatchedByRelease ==
  /\ []HeldByOneOwner
  /\ ReleasedByOwner

\* both kinds of release happened: the worker of a selection has ended and
\* its lock is free, and a start whose create_task failed gave its lock back
C39_Witness ==
  \E c \in Callers, t \in FreshIds :
    /\ SelActive /\ caller[c].pc = "create_failed"
    /\ t \in DOMAIN worker /\ worker[t].pc = "done"
    /\ sel_held = {}

\* ---------------------------------------------------------------------------
\* C40: one outcome per subject

\* the outcomes rs are one for every subject 1..n and none for anything else
OnePerSubject(rs, n) ==
  /\ Len(rs) = n
  /\ {rs[k].symbol : k \in 1..Len(rs)} = 1..n

\* the outcomes rs are in subject order
InSubjectOrder(rs) == \A k \in 1..Len(rs) : rs[k].symbol = k

\* the accumulated results of a completed batch: the history record of the
\* batch_task_status row, the results column of the analysis_tasks row
MFCompletedOutcomes(t) ==
  LET row == mf_rows[t]
      h == mf_history[row.history_record_id]
  IN /\ row.history_record_id \in DOMAIN mf_history
     /\ OnePerSubject(h.results, row.total_count)
     /\ env.mode = "sequential" => InSubjectOrder(h.results)
SACompletedOutcomes(t) ==
  /\ sa_rows[t].results # {}
  /\ \A rs \in sa_rows[t].results : OnePerSubject(rs, sa_rows[t].total_count)
CompletedHasOneOutcomeEach ==
  /\ \A t \in FreshIds \cap DOMAIN mf_rows :
       mf_rows[t].status = "completed" => MFCompletedOutcomes(t)
  /\ \A t \in FreshIds \cap DOMAIN sa_rows :
       (sa_rows[t].status = "completed" /\ sa_rows[t].task_type = "batch")
         => SACompletedOutcomes(t)

\* the units that ended and whose outcome the loop has not taken
EndedNotTaken(w) == {w.order[k] : k \in 1..Len(w.order)}

\* a step in which the loop over as_completed takes the outcome of unit u
CollectStep(t, u) == MFCollect(t, u) \/ SABatchCollect(t, u)

\* the sequential loop takes the subjects one after the other; a unit of the
\* pool that was taken by a thread is never queued or taken again, and an
\* outcome that was collected is not collected again
NoSubjectTwice ==
  \A t \in FreshIds :
    /\ \A out \in Outcomes :
         MFSeqUnit(t, out)
           => /\ worker'[t].i = worker[t].i + 1
              /\ worker'[t].results = Append(worker[t].results,
                                             worker'[t].results[worker'[t].i])
              /\ worker'[t].results[worker'[t].i].symbol = worker'[t].i
    /\ \A u \in 1..MaxUnits :
         /\ (MFUnitStart(t, u) \/ SAUnitStart(t, u)) => worker[t].units[u] = "queued"
         /\ (/\ MFActive \/ SAActive
             /\ t \in DOMAIN worker /\ t \in DOMAIN worker'
             /\ u \in DOMAIN worker[t].units /\ u \in DOMAIN worker'[t].units
             /\ worker[t].units[u] # "queued")
              => /\ worker'[t].units[u] # "queued"
                 /\ (worker'[t].units[u] = "running" => worker[t].units[u] = "running")
                 /\ (worker[t].units[u] = "yielded" => worker'[t].units[u] = "yielded")
         /\ CollectStep(t, u)
              => /\ worker[t].units[u] \in {"ok", "fail"}
                 /\ worker'[t].units[u] = "yielded"
                 /\ \A k \in 1..Len(worker[t].results) : worker[t].results[k].symbol # u
                 /\ worker'[t].results[Len(worker'[t].results)].symbol = u

\* every outcome the loop takes is that of the unit that ended first among
\* those not yet taken
CollectedInCompletionOrder ==
  \A t \in FreshIds, u \in 1..MaxUnits :
    CollectStep(t, u) => u = Head(worker[t].order)

\* the units that had ended when the loop took its first outcome come first, in
\* any order; the outcomes of the others are in the order in which they ended
CollectedAsCompleted ==
  \A t \in FreshIds, u \in 1..MaxUnits :
    CollectStep(t, u)
      => /\ u \in EndedNotTaken(worker[t])
         /\ (Yielded(worker[t]) # {} /\ worker[t].snap = {})
              => u = Head(worker[t].order)
         /\ (Yielded(worker[t]) # {} /\ worker[t].snap # {}) => u \in worker[t].snap
         /\ Yielded(worker[t]) = {}
              => worker'[t].snap = EndedNotTaken(worker[t]) \ {u}

====
